---------------------------- MODULE Spec2Model ----------------------------
(***************************************************************************)
(* Model of the Pac-Man simulation engine (GameScreen.update and its       *)
(* helpers, utils/ghostAI.ts, utils/storage.ts, constants.ts).             *)
(*                                                                         *)
(* Positions are the source's floating point tile coordinates, kept here   *)
(* as exact integers in units of 1/Unit tile.  Elapsed times are chosen so *)
(* that every distance of the source is a whole number of units.           *)
(***************************************************************************)
EXTENDS Integers, Sequences, FiniteSets, TLC

\* ------------------------------------------------------------------------
\* types.ts
\* ------------------------------------------------------------------------
WALL == 0
PELLET == 1
EMPTY == 2
POWER_PELLET == 3
PACMAN_SPAWN == 9
GHOST_SPAWN == 8

UP == "UP"
DOWN == "DOWN"
LEFT == "LEFT"
RIGHT == "RIGHT"
NONE == "NONE"

NORMAL == "NORMAL"
VULNERABLE == "VULNERABLE"
EATEN == "EATEN"

\* ------------------------------------------------------------------------
\* constants.ts
\* ------------------------------------------------------------------------
INITIAL_MAP ==
  << <<0, 0, 0, 0, 0, 0, 0, 0, 0, 0, 0, 0, 0, 0, 0, 0, 0, 0, 0>>,
     <<0, 3, 1, 1, 1, 1, 1, 1, 1, 0, 1, 1, 1, 1, 1, 1, 1, 3, 0>>,
     <<0, 1, 0, 0, 1, 0, 0, 0, 1, 0, 1, 0, 0, 0, 1, 0, 0, 1, 0>>,
     <<0, 1, 0, 0, 1, 0, 0, 0, 1, 0, 1, 0, 0, 0, 1, 0, 0, 1, 0>>,
     <<0, 1, 1, 1, 1, 1, 1, 1, 1, 1, 1, 1, 1, 1, 1, 1, 1, 1, 0>>,
     <<0, 1, 0, 0, 1, 0, 1, 0, 0, 0, 0, 0, 1, 0, 1, 0, 0, 1, 0>>,
     <<0, 1, 1, 1, 1, 0, 1, 1, 1, 0, 1, 1, 1, 0, 1, 1, 1, 1, 0>>,
     <<0, 0, 0, 0, 1, 0, 0, 0, 2, 2, 2, 0, 0, 0, 1, 0, 0, 0, 0>>,
     <<2, 2, 2, 0, 1, 0, 2, 2, 8, 8, 8, 2, 2, 0, 1, 0, 2, 2, 2>>,
     <<0, 0, 0, 0, 1, 0, 2, 0, 0, 2, 0, 0, 2, 0, 1, 0, 0, 0, 0>>,
     <<0, 1, 1, 1, 1, 1, 1, 1, 1, 9, 1, 1, 1, 1, 1, 1, 1, 1, 0>>,
     <<0, 1, 0, 0, 1, 0, 0, 0, 1, 0, 1, 0, 0, 0, 1, 0, 0, 1, 0>>,
     <<0, 1, 1, 0, 1, 1, 1, 1, 1, 0, 1, 1, 1, 1, 1, 0, 1, 1, 0>>,
     <<0, 0, 1, 0, 1, 0, 1, 0, 0, 0, 0, 0, 1, 0, 1, 0, 1, 0, 0>>,
     <<0, 3, 1, 1, 1, 0, 1, 1, 1, 0, 1, 1, 1, 0, 1, 1, 1, 3, 0>>,
     <<0, 0, 0, 0, 0, 0, 0, 0, 0, 0, 0, 0, 0, 0, 0, 0, 0, 0, 0>> >>

MAP_WIDTH == Len(INITIAL_MAP[1])
MAP_HEIGHT == Len(INITIAL_MAP)

\* One tile is Unit position units (Position.x / Position.y are numbers).
Unit == 2 * 20

\* A Position {x, y} whose coordinates are whole tiles.
Pos(tx, ty) == [x |-> tx * Unit, y |-> ty * Unit]

\* DIRECTIONS, as tile offsets.
DIRECTIONS(dir) ==
  CASE dir = UP    -> [x |-> 0, y |-> -1]
    [] dir = DOWN  -> [x |-> 0, y |-> 1]
    [] dir = LEFT  -> [x |-> -1, y |-> 0]
    [] dir = RIGHT -> [x |-> 1, y |-> 0]
    [] OTHER       -> [x |-> 0, y |-> 0]

\* INITIAL_GHOSTS (the colour is presentation only).
INITIAL_GHOSTS ==
  << [id |-> 1, startPos |-> Pos(9, 8)],
     [id |-> 2, startPos |-> Pos(8, 8)],
     [id |-> 3, startPos |-> Pos(10, 8)],
     [id |-> 4, startPos |-> Pos(9, 7)],
     [id |-> 5, startPos |-> Pos(8, 7)],
     [id |-> 6, startPos |-> Pos(10, 7)] >>

ROUND_CONFIGS(r) ==
  CASE r = 1 -> [speed |-> 130, ghostCount |-> 3]
    [] r = 2 -> [speed |-> 90, ghostCount |-> 4]
    [] r = 3 -> [speed |-> 70, ghostCount |-> 6]

ROUND_START_PAUSE(r) ==
  CASE r = 1 -> [duration |-> 2000, message |-> "GET READY"]
    [] r = 2 -> [duration |-> 2000, message |-> "STAY SHARP"]
    [] r = 3 -> [duration |-> 3000, message |-> "FINAL ROUND"]

VULNERABLE_DURATION_MS == 10000

\* ------------------------------------------------------------------------
\* Number helpers (Math.abs, Math.round, Math.floor, Math.ceil on units)
\* ------------------------------------------------------------------------
Abs(n) == IF n < 0 THEN -n ELSE n

\* Math.floor(v), v in units, result in tiles.
Floor(v) == v \div Unit

\* Math.ceil(v), v in units, result in tiles.
Ceil(v) == -((-v) \div Unit)

\* Math.round(v): nearest tile, halves go up.
Round(v) == (2 * v + Unit) \div (2 * Unit)

\* grid[y][x] for 0-based tile coordinates.
TileAt(g, x, y) == g[y + 1][x + 1]

\* grid[y][x] = t
SetTile(g, x, y, t) == [g EXCEPT ![y + 1][x + 1] = t]

\* ------------------------------------------------------------------------
\* utils/ghostAI.ts
\* ------------------------------------------------------------------------
getDistance(p1, p2) == Abs(p1.x - p2.x) + Abs(p1.y - p2.y)

getNextTile(pos, dir) ==
  [x |-> Round(pos.x + DIRECTIONS(dir).x * Unit) * Unit,
   y |-> Round(pos.y + DIRECTIONS(dir).y * Unit) * Unit]

getOppositeDirection(dir) ==
  CASE dir = UP    -> DOWN
    [] dir = DOWN  -> UP
    [] dir = LEFT  -> RIGHT
    [] dir = RIGHT -> LEFT
    [] OTHER       -> NONE

\* Mutant of getTargetPosition: the personalities are enabled in round 1.
getTargetPositionAllRounds(ghost, pacmanPos, pacmanDir, blinkyPos, round) ==
  CASE ghost.id = 1 -> pacmanPos
    [] ghost.id = 2 ->
         [x |-> pacmanPos.x + DIRECTIONS(pacmanDir).x * 4 * Unit,
          y |-> pacmanPos.y + DIRECTIONS(pacmanDir).y * 4 * Unit]
    [] ghost.id = 3 ->
         IF round < 3 THEN pacmanPos
         ELSE LET pivotX == pacmanPos.x + DIRECTIONS(pacmanDir).x * 2 * Unit
                  pivotY == pacmanPos.y + DIRECTIONS(pacmanDir).y * 2 * Unit
                  vecX == pivotX - blinkyPos.x
                  vecY == pivotY - blinkyPos.y
              IN [x |-> blinkyPos.x + vecX * 2, y |-> blinkyPos.y + vecY * 2]
    [] ghost.id = 4 ->
         IF getDistance(ghost.pos, pacmanPos) > 8 * Unit
         THEN pacmanPos
         ELSE Pos(0, MAP_HEIGHT - 1)
    [] ghost.id = 5 ->
         [x |-> pacmanPos.x - DIRECTIONS(pacmanDir).x * 4 * Unit,
          y |-> pacmanPos.y - DIRECTIONS(pacmanDir).y * 4 * Unit]
    [] ghost.id = 6 ->
         [x |-> (MAP_WIDTH - 1) * Unit - pacmanPos.x,
          y |-> (MAP_HEIGHT - 1) * Unit - pacmanPos.y]
    [] OTHER -> pacmanPos

\* Mutant of getTargetPosition: ghost 4 chases pacman from a distance of 8
\* tiles on.
getTargetPositionClydeFromEight(ghost, pacmanPos, pacmanDir, blinkyPos, round) ==
  IF round = 1 THEN pacmanPos
  ELSE CASE ghost.id = 2 ->
              [x |-> pacmanPos.x + DIRECTIONS(pacmanDir).x * 4 * Unit,
               y |-> pacmanPos.y + DIRECTIONS(pacmanDir).y * 4 * Unit]
         [] ghost.id = 3 ->
              IF round < 3 THEN pacmanPos
              ELSE LET pivotX == pacmanPos.x + DIRECTIONS(pacmanDir).x * 2 * Unit
                       pivotY == pacmanPos.y + DIRECTIONS(pacmanDir).y * 2 * Unit
                       vecX == pivotX - blinkyPos.x
                       vecY == pivotY - blinkyPos.y
                   IN [x |-> blinkyPos.x + vecX * 2, y |-> blinkyPos.y + vecY * 2]
         [] ghost.id = 4 ->
              IF getDistance(ghost.pos, pacmanPos) >= 8 * Unit
              THEN pacmanPos
              ELSE Pos(0, MAP_HEIGHT - 1)
         [] ghost.id = 5 ->
              [x |-> pacmanPos.x - DIRECTIONS(pacmanDir).x * 4 * Unit,
               y |-> pacmanPos.y - DIRECTIONS(pacmanDir).y * 4 * Unit]
         [] ghost.id = 6 ->
              [x |-> (MAP_WIDTH - 1) * Unit - pacmanPos.x,
               y |-> (MAP_HEIGHT - 1) * Unit - pacmanPos.y]
         [] OTHER -> pacmanPos

getTargetPosition(ghost, pacmanPos, pacmanDir, blinkyPos, round) ==
  IF round = 1 THEN pacmanPos
  ELSE CASE ghost.id = 1 -> pacmanPos
         [] ghost.id = 2 ->
              [x |-> pacmanPos.x + DIRECTIONS(pacmanDir).x * 4 * Unit,
               y |-> pacmanPos.y + DIRECTIONS(pacmanDir).y * 4 * Unit]
         [] ghost.id = 3 ->
              IF round < 3 THEN pacmanPos
              ELSE LET pivotX == pacmanPos.x + DIRECTIONS(pacmanDir).x * 2 * Unit
                       pivotY == pacmanPos.y + DIRECTIONS(pacmanDir).y * 2 * Unit
                       vecX == pivotX - blinkyPos.x
                       vecY == pivotY - blinkyPos.y
                   IN [x |-> blinkyPos.x + vecX * 2, y |-> blinkyPos.y + vecY * 2]
         [] ghost.id = 4 ->
              IF getDistance(ghost.pos, pacmanPos) > 8 * Unit
              THEN pacmanPos
              ELSE Pos(0, MAP_HEIGHT - 1)
         [] ghost.id = 5 ->
              [x |-> pacmanPos.x - DIRECTIONS(pacmanDir).x * 4 * Unit,
               y |-> pacmanPos.y - DIRECTIONS(pacmanDir).y * 4 * Unit]
         [] ghost.id = 6 ->
              [x |-> (MAP_WIDTH - 1) * Unit - pacmanPos.x,
               y |-> (MAP_HEIGHT - 1) * Unit - pacmanPos.y]
         [] OTHER -> pacmanPos

\* The priority order of getAvailableMoves.
checkOrder == <<UP, LEFT, DOWN, RIGHT>>

\* Whether getAvailableMoves admits dir for the ghost.
moveAdmitted(ghost, grid, allowReverse, dir) ==
  LET opposite == getOppositeDirection(ghost.direction)
      nextX == Round(ghost.pos.x) + DIRECTIONS(dir).x
      nextY == Round(ghost.pos.y) + DIRECTIONS(dir).y
  IN /\ ~(~allowReverse /\ dir = opposite)
     /\ IF nextY >= 0 /\ nextY < MAP_HEIGHT /\ nextX >= 0 /\ nextX < MAP_WIDTH
        THEN TileAt(grid, nextX, nextY) # WALL
        ELSE nextX < 0 \/ nextX >= MAP_WIDTH

\* Mutant of getAvailableMoves: the reverse direction is always allowed.
getAvailableMovesWithReverse(ghost, grid, allowReverse) ==
  SelectSeq(checkOrder, LAMBDA dir : moveAdmitted(ghost, grid, TRUE, dir))

getAvailableMoves(ghost, grid, allowReverse) ==
  SelectSeq(checkOrder, LAMBDA dir : moveAdmitted(ghost, grid, allowReverse, dir))

\* Mutant of bestMove: a candidate at the same distance replaces the best.
RECURSIVE bestMoveLastWins(_, _, _, _, _, _)
bestMoveLastWins(ghost, target, validMoves, i, bestDir, minDistance) ==
  IF i > Len(validMoves) THEN bestDir
  ELSE LET dist == getDistance(getNextTile(ghost.pos, validMoves[i]), target)
       IN IF minDistance < 0 \/ dist <= minDistance
          THEN bestMoveLastWins(ghost, target, validMoves, i + 1,
                                validMoves[i], dist)
          ELSE bestMoveLastWins(ghost, target, validMoves, i + 1, bestDir,
                                minDistance)

\* The loop of case C: first candidate of minimal distance to the target.
RECURSIVE bestMove(_, _, _, _, _, _)
bestMove(ghost, target, validMoves, i, bestDir, minDistance) ==
  IF i > Len(validMoves) THEN bestDir
  ELSE LET dist == getDistance(getNextTile(ghost.pos, validMoves[i]), target)
       IN IF minDistance < 0 \/ dist < minDistance
          THEN bestMove(ghost, target, validMoves, i + 1, validMoves[i], dist)
          ELSE bestMove(ghost, target, validMoves, i + 1, bestDir, minDistance)

\* Mutant of getNextGhostDirection: a VULNERABLE ghost may reverse.
getNextGhostDirectionFrightenedReverse(ghost, pacmanPos, pacmanDir, blinkyPos, grid, round) ==
  LET validMoves == getAvailableMoves(ghost, grid, FALSE)
      withReverse == getAvailableMoves(ghost, grid, TRUE)
      target == getTargetPosition(ghost, pacmanPos, pacmanDir, blinkyPos, round)
  IN IF ghost.status = VULNERABLE
     THEN IF Len(withReverse) > 0
          THEN {withReverse[i] : i \in 1..Len(withReverse)}
          ELSE {getOppositeDirection(ghost.direction)}
     ELSE IF Len(validMoves) = 0 THEN {getOppositeDirection(ghost.direction)}
     ELSE IF Len(validMoves) = 1 THEN {validMoves[1]}
     ELSE {bestMove(ghost, target, validMoves, 1, validMoves[1], -1)}

\* Mutant of getNextGhostDirection: a VULNERABLE ghost takes the first of
\* its available moves.
getNextGhostDirectionFirstMove(ghost, pacmanPos, pacmanDir, blinkyPos, grid, round) ==
  LET validMoves == getAvailableMoves(ghost, grid, FALSE)
      target == getTargetPosition(ghost, pacmanPos, pacmanDir, blinkyPos, round)
  IN IF ghost.status = VULNERABLE
     THEN IF Len(validMoves) > 0
          THEN {validMoves[1]}
          ELSE {getOppositeDirection(ghost.direction)}
     ELSE IF Len(validMoves) = 0 THEN {getOppositeDirection(ghost.direction)}
     ELSE IF Len(validMoves) = 1 THEN {validMoves[1]}
     ELSE {bestMove(ghost, target, validMoves, 1, validMoves[1], -1)}

\* The set of directions getNextGhostDirection can return (Math.random picks
\* any of the available moves of a VULNERABLE ghost).
getNextGhostDirection(ghost, pacmanPos, pacmanDir, blinkyPos, grid, round) ==
  LET validMoves == getAvailableMoves(ghost, grid, FALSE)
      target == getTargetPosition(ghost, pacmanPos, pacmanDir, blinkyPos, round)
  IN IF ghost.status = VULNERABLE
     THEN IF Len(validMoves) > 0
          THEN {validMoves[i] : i \in 1..Len(validMoves)}
          ELSE {getOppositeDirection(ghost.direction)}
     ELSE IF Len(validMoves) = 0 THEN {getOppositeDirection(ghost.direction)}
     ELSE IF Len(validMoves) = 1 THEN {validMoves[1]}
     ELSE {bestMove(ghost, target, validMoves, 1, validMoves[1], -1)}

\* ------------------------------------------------------------------------
\* utils/storage.ts
\* ------------------------------------------------------------------------
\* Mutant of insertSorted: an entry goes before the entries of the same
\* score.
RECURSIVE insertSortedBeforeEqual(_, _)
insertSortedBeforeEqual(sorted, e) ==
  IF sorted = << >> THEN <<e>>
  ELSE IF Head(sorted).score > e.score
       THEN <<Head(sorted)>> \o insertSortedBeforeEqual(Tail(sorted), e)
       ELSE <<e>> \o sorted

\* Array.prototype.sort((a, b) => b.score - a.score): stable, descending.
RECURSIVE insertSorted(_, _)
insertSorted(sorted, e) ==
  IF sorted = << >> THEN <<e>>
  ELSE IF Head(sorted).score >= e.score
       THEN <<Head(sorted)>> \o insertSorted(Tail(sorted), e)
       ELSE <<e>> \o sorted

RECURSIVE sortByScore(_)
sortByScore(list) ==
  IF list = << >> THEN << >>
  ELSE insertSorted(sortByScore(SubSeq(list, 1, Len(list) - 1)), list[Len(list)])

\* getLeaderboard: the stored list.
getLeaderboard(storage) == storage

\* saveScore: the list written back to the store (the date is not modelled).
saveScore(storage, teamName, score) ==
  LET current == getLeaderboard(storage)
      newScore == [teamName |-> teamName, score |-> score]
      sorted == sortByScore(current \o <<newScore>>)
  IN SubSeq(sorted, 1, IF Len(sorted) < 5 THEN Len(sorted) ELSE 5)

\* The ways localStorage can answer one call: it works, getItem or
\* JSON.parse throws (the store is disabled or holds no valid list), or
\* setItem throws (the store is disabled or full).
StoreModes == {"ok", "readFails", "writeFails"}

\* getLeaderboard with its catch block: a failed read gives the empty list.
getLeaderboardOn(storage, mode) ==
  IF mode = "readFails" THEN << >> ELSE getLeaderboard(storage)

\* saveScore on a store in the given mode: whether the call raised, and the
\* list in the store after it.  setItem is outside any try block, so that
\* its exception leaves saveScore, with the store as it was.
saveScoreOn(storage, teamName, score, mode) ==
  IF mode = "writeFails"
  THEN [raised |-> TRUE, storage |-> storage]
  ELSE [raised |-> FALSE,
        storage |-> saveScore(getLeaderboardOn(storage, mode), teamName,
                              score)]

\* ------------------------------------------------------------------------
\* GameScreen: initialisation
\* ------------------------------------------------------------------------
\* The teamName prop.
teamName == "TEAM"

\* row.forEach: the positions of the cells of row y, from column x on, whose
\* value is in kinds.
RECURSIVE rowCellsFrom(_, _, _, _)
rowCellsFrom(g, y, x, kinds) ==
  IF x >= MAP_WIDTH THEN << >>
  ELSE (IF TileAt(g, x, y) \in kinds THEN <<[x |-> x, y |-> y]>> ELSE << >>)
       \o rowCellsFrom(g, y, x + 1, kinds)

\* newGrid.forEach: the positions of the cells whose value is in kinds, row
\* by row from row y on.
RECURSIVE cellsFrom(_, _, _)
cellsFrom(g, y, kinds) ==
  IF y >= MAP_HEIGHT THEN << >>
  ELSE rowCellsFrom(g, y, 0, kinds) \o cellsFrom(g, y + 1, kinds)

\* Mutant of countPellets: the power pellets are not counted.
countPelletsNoPower(g) ==
  Len(cellsFrom(g, 0, {PELLET}))

\* pelletCount of initRound: the cells that are PELLET or POWER_PELLET.
countPellets(g) ==
  Len(cellsFrom(g, 0, {PELLET, POWER_PELLET}))

\* powerPelletLocs of initRound.
powerPelletLocs(g) == cellsFrom(g, 0, {POWER_PELLET})

\* The pacman object written by initRound and by the useRef initialiser.
startPacman ==
  [pos |-> Pos(9, 10), dir |-> RIGHT, nextDir |-> RIGHT, lastMoveTime |-> 0]

\* initialGhosts of initRound.
initialGhosts(roundNum) ==
  [i \in 1..ROUND_CONFIGS(roundNum).ghostCount |->
     [id |-> INITIAL_GHOSTS[i].id,
      pos |-> INITIAL_GHOSTS[i].startPos,
      direction |-> UP,
      status |-> NORMAL]]

\* The message text of initRound's template string.
roundMessage(roundNum) ==
  CASE roundNum = 1 -> "ROUND 1 - GET READY"
    [] roundNum = 2 -> "ROUND 2 - STAY SHARP"
    [] roundNum = 3 -> "ROUND 3 - FINAL ROUND"

initRound(s, roundNum, keepScore) ==
  LET pauseConfig == ROUND_START_PAUSE(roundNum)
      newGrid == INITIAL_MAP
      locs == powerPelletLocs(newGrid)
  IN [s EXCEPT
        !.grid = newGrid,
        !.pelletsRemaining = countPellets(newGrid),
        !.powerPelletLocations = locs,
        !.currentPowerPellets = Len(locs),
        !.pacman = startPacman,
        !.ghosts = initialGhosts(roundNum),
        !.round = roundNum,
        !.vulnerableUntil = 0,
        !.ghostsEatenStreak = 0,
        !.popups = << >>,
        !.status = "ROUND_STARTING",
        !.pauseTimer = pauseConfig.duration,
        !.pauseDuration = pauseConfig.duration,
        !.pauseMessage = roundMessage(roundNum),
        !.score = IF keepScore THEN @ ELSE 0,
        !.log = @ \o <<[e |-> "initRound", round |-> roundNum]>>]

\* Mutant of resetPositions: the buffered direction is not reset.
resetPositionsKeepNextDir(s) ==
  [s EXCEPT
     !.pacman = [@ EXCEPT !.pos = Pos(9, 10), !.dir = RIGHT],
     !.ghosts = [idx \in 1..Len(s.ghosts) |->
                   IF s.ghosts[idx].status # EATEN
                   THEN [s.ghosts[idx] EXCEPT
                           !.pos = INITIAL_GHOSTS[idx].startPos,
                           !.direction = UP]
                   ELSE s.ghosts[idx]],
     !.status = "RESPAWNING",
     !.pauseTimer = 1500,
     !.pauseDuration = 1500,
     !.pauseMessage = "READY!"]

resetPositions(s) ==
  [s EXCEPT
     !.pacman = [@ EXCEPT !.pos = Pos(9, 10), !.dir = RIGHT, !.nextDir = RIGHT],
     !.ghosts = [idx \in 1..Len(s.ghosts) |->
                   IF s.ghosts[idx].status # EATEN
                   THEN [s.ghosts[idx] EXCEPT
                           !.pos = INITIAL_GHOSTS[idx].startPos,
                           !.direction = UP]
                   ELSE s.ghosts[idx]],
     !.status = "RESPAWNING",
     !.pauseTimer = 1500,
     !.pauseDuration = 1500,
     !.pauseMessage = "READY!"]

\* ------------------------------------------------------------------------
\* GameScreen: helpers
\* ------------------------------------------------------------------------
\* Mutant of isValidMove: only WALL is refused.
isValidMoveWallOnly(grid, x, y, dir) ==
  LET move == DIRECTIONS(dir)
      rawX == Round(x + move.x * Unit)
      nextX == IF rawX < 0 THEN MAP_WIDTH - 1
               ELSE IF rawX >= MAP_WIDTH THEN 0 ELSE rawX
      nextY == Round(y + move.y * Unit)
  IN IF nextY < 0 \/ nextY >= MAP_HEIGHT THEN FALSE
     ELSE TileAt(grid, nextX, nextY) # WALL

isValidMove(grid, x, y, dir) ==
  LET move == DIRECTIONS(dir)
      rawX == Round(x + move.x * Unit)
      nextX == IF rawX < 0 THEN MAP_WIDTH - 1
               ELSE IF rawX >= MAP_WIDTH THEN 0 ELSE rawX
      nextY == Round(y + move.y * Unit)
  IN IF nextY < 0 \/ nextY >= MAP_HEIGHT THEN FALSE
     ELSE LET tile == TileAt(grid, nextX, nextY)
          IN tile # WALL /\ tile # GHOST_SPAWN

\* ------------------------------------------------------------------------
\* GameScreen: end of life / end of round
\* ------------------------------------------------------------------------
\* Mutant of handleDemotionOrGameOver: the status is left as it was.
handleDemotionOrGameOverNoStop(s) ==
  IF s.round = 1
  THEN [s EXCEPT
          !.storage = saveScore(@, teamName, s.score),
          !.calls = @ \o <<[fn |-> "saveScore", score |-> s.score],
                           [fn |-> "onGameOver", score |-> s.score]>>]
  ELSE initRound([s EXCEPT !.lives = 3], 1, TRUE)

handleDemotionOrGameOver(s0) ==
  LET s == [s0 EXCEPT !.status = "LEVEL_TRANSITION"]
  IN IF s.round = 1
     THEN [s EXCEPT
             !.storage = saveScore(@, teamName, s.score),
             !.calls = @ \o <<[fn |-> "saveScore", score |-> s.score],
                              [fn |-> "onGameOver", score |-> s.score]>>]
     ELSE initRound([s EXCEPT !.lives = 3], 1, TRUE)

handleDeath(s0) ==
  LET s == [s0 EXCEPT
              !.lives = @ - 1,
              !.log = @ \o <<[e |-> "death", score |-> s0.score,
                                round |-> s0.round, lives |-> s0.lives,
                                grid |-> s0.grid,
                                pelletsRemaining |-> s0.pelletsRemaining]>>]
  IN IF s.lives <= 0 THEN handleDemotionOrGameOver(s) ELSE resetPositions(s)

\* handleDeath on the last life of round 1 (handleDemotionOrGameOver takes
\* its first branch) with a store in the given mode: an exception of
\* saveScore leaves handleDemotionOrGameOver before onGameOver is called.
handleDeathOn(s0, mode) ==
  LET s == [s0 EXCEPT !.lives = @ - 1, !.status = "LEVEL_TRANSITION"]
      saved == saveScoreOn(s.storage, teamName, s.score, mode)
  IN [s EXCEPT
        !.storage = saved.storage,
        !.calls = @ \o <<[fn |-> "saveScore", score |-> s.score]>>
                    \o IF saved.raised THEN << >>
                       ELSE <<[fn |-> "onGameOver", score |-> s.score]>>]

\* handleLevelComplete up to the setTimeout call; the callback is
\* levelTimeout below.
handleLevelComplete(s) ==
  [s EXCEPT
     !.status = "LEVEL_TRANSITION",
     !.timeouts = @ \o <<[delay |-> 2000, setAt |-> s.lastFrameTime]>>,
     !.log = @ \o <<[e |-> "levelComplete"]>>]

\* Mutant of levelTimeout: the next round is initialised without keepScore.
levelTimeoutResetScore(s) ==
  IF s.round < 3
  THEN initRound(s, s.round + 1, FALSE)
  ELSE [s EXCEPT
          !.storage = saveScore(@, teamName, s.score),
          !.calls = @ \o <<[fn |-> "saveScore", score |-> s.score],
                           [fn |-> "onGameWin", score |-> s.score]>>]

\* The callback handleLevelComplete hands to setTimeout.
levelTimeout(s) ==
  IF s.round < 3
  THEN initRound(s, s.round + 1, TRUE)
  ELSE [s EXCEPT
          !.storage = saveScore(@, teamName, s.score),
          !.calls = @ \o <<[fn |-> "saveScore", score |-> s.score],
                           [fn |-> "onGameWin", score |-> s.score]>>]

\* ------------------------------------------------------------------------
\* GameScreen.update: 1. pacman
\* ------------------------------------------------------------------------
\* atCenter of the movement loop: both coordinates within 0.01 tile of the
\* rounded tile.
atCenter(pos) ==
  /\ Abs(pos.x - Round(pos.x) * Unit) * 100 < Unit
  /\ Abs(pos.y - Round(pos.y) * Unit) * 100 < Unit

\* distToNext of the movement loop, with the "small float error" fix.
distToNext(pos, move) ==
  LET d == IF move.x > 0 THEN (Floor(pos.x) + 1) * Unit - pos.x
           ELSE IF move.x < 0 THEN pos.x - (Ceil(pos.x) - 1) * Unit
           ELSE IF move.y > 0 THEN (Floor(pos.y) + 1) * Unit - pos.y
           ELSE IF move.y < 0 THEN pos.y - (Ceil(pos.y) - 1) * Unit
           ELSE 0
  IN IF d * 10000 <= Unit THEN Unit ELSE d

\* Mutant of movePacman: the wall check at the tile centre is left out.
RECURSIVE movePacmanNoStop(_, _, _, _)
movePacmanNoStop(grid, pac0, moveDist, loops) ==
  IF ~(moveDist > 0 /\ loops < 5) THEN pac0
  ELSE
    LET tX == Round(pac0.pos.x)
        tY == Round(pac0.pos.y)
        centred == atCenter(pac0.pos)
        turn == /\ pac0.nextDir # NONE
                /\ pac0.nextDir # pac0.dir
                /\ isValidMove(grid, tX * Unit, tY * Unit, pac0.nextDir)
        pac == IF centred
               THEN [pac0 EXCEPT !.pos = Pos(tX, tY),
                                 !.dir = IF turn THEN pac0.nextDir ELSE @]
               ELSE pac0
        move == DIRECTIONS(pac.dir)
        dist == distToNext(pac.pos, move)
    IN IF pac.dir = NONE THEN pac
       ELSE IF moveDist >= dist
       THEN movePacmanNoStop(
              grid,
              [pac EXCEPT !.pos = [x |-> pac.pos.x + move.x * dist,
                                   y |-> pac.pos.y + move.y * dist]],
              moveDist - dist, loops + 1)
       ELSE [pac EXCEPT !.pos = [x |-> pac.pos.x + move.x * moveDist,
                                 y |-> pac.pos.y + move.y * moveDist]]

\* B. Movement Loop: the pacman object after the while loop.
RECURSIVE movePacman(_, _, _, _)
movePacman(grid, pac0, moveDist, loops) ==
  IF ~(moveDist > 0 /\ loops < 5) THEN pac0
  ELSE
    LET tX == Round(pac0.pos.x)
        tY == Round(pac0.pos.y)
        centred == atCenter(pac0.pos)
        turn == /\ pac0.nextDir # NONE
                /\ pac0.nextDir # pac0.dir
                /\ isValidMove(grid, tX * Unit, tY * Unit, pac0.nextDir)
        pac == IF centred
               THEN [pac0 EXCEPT !.pos = Pos(tX, tY),
                                 !.dir = IF turn THEN pac0.nextDir ELSE @]
               ELSE pac0
        move == DIRECTIONS(pac.dir)
        dist == distToNext(pac.pos, move)
    IN IF centred /\ ~isValidMove(grid, tX * Unit, tY * Unit, pac.dir) THEN pac
       ELSE IF pac.dir = NONE THEN pac
       ELSE IF moveDist >= dist
       THEN movePacman(grid,
                       [pac EXCEPT !.pos = [x |-> pac.pos.x + move.x * dist,
                                            y |-> pac.pos.y + move.y * dist]],
                       moveDist - dist, loops + 1)
       ELSE [pac EXCEPT !.pos = [x |-> pac.pos.x + move.x * moveDist,
                                 y |-> pac.pos.y + move.y * moveDist]]

\* D. Tunnel Logic (the same two statements serve pacman and the ghosts).
tunnel(pos) ==
  LET x1 == IF 2 * pos.x < -Unit THEN MAP_WIDTH * Unit - Unit \div 2 ELSE pos.x
      x2 == IF 2 * x1 > 2 * MAP_WIDTH * Unit - Unit THEN -(Unit \div 2) ELSE x1
  IN [pos EXCEPT !.x = x2]

\* A. Handle Immediate Reversal, B. Movement Loop, D. Tunnel Logic.
pacmanLogic(s, delta) ==
  LET pacSpeedMs == ROUND_CONFIGS(s.round).speed
      moveDist == (delta * Unit) \div pacSpeedMs
      pac0 == IF getOppositeDirection(s.pacman.dir) = s.pacman.nextDir
              THEN [s.pacman EXCEPT !.dir = s.pacman.nextDir]
              ELSE s.pacman
      pac1 == movePacman(s.grid, pac0, moveDist, 0)
  IN [s EXCEPT !.pacman = [pac1 EXCEPT !.pos = tunnel(pac1.pos)]]

\* RESPAWN LOGIC: the forEach over powerPelletLocations.
RECURSIVE restorePowerPellets(_, _, _)
restorePowerPellets(grid, locs, i) ==
  IF i > Len(locs) THEN [grid |-> grid, respawnCount |-> 0]
  ELSE IF TileAt(grid, locs[i].x, locs[i].y) = EMPTY
       THEN LET rest == restorePowerPellets(
                          SetTile(grid, locs[i].x, locs[i].y, POWER_PELLET),
                          locs, i + 1)
            IN [rest EXCEPT !.respawnCount = @ + 1]
       ELSE restorePowerPellets(grid, locs, i + 1)

\* Mutant of replenish: no power pellet is ever restored.
replenishNever(s) == s

\* Mutant of replenish: pelletsRemaining is not increased.
replenishNoCount(s) ==
  LET ghostsAlive == \E i \in 1..Len(s.ghosts) : s.ghosts[i].status # EATEN
      r == restorePowerPellets(s.grid, s.powerPelletLocations, 1)
  IN IF s.currentPowerPellets = 0 /\ ghostsAlive /\ r.respawnCount > 0
     THEN [s EXCEPT
             !.grid = r.grid,
             !.currentPowerPellets = r.respawnCount,
             !.log = @ \o <<[e |-> "restore", count |-> r.respawnCount]>>]
     ELSE s

\* RESPAWN LOGIC: the last power pellet was consumed.
replenish(s) ==
  LET ghostsAlive == \E i \in 1..Len(s.ghosts) : s.ghosts[i].status # EATEN
      r == restorePowerPellets(s.grid, s.powerPelletLocations, 1)
  IN IF s.currentPowerPellets = 0 /\ ghostsAlive /\ r.respawnCount > 0
     THEN [s EXCEPT
             !.grid = r.grid,
             !.currentPowerPellets = r.respawnCount,
             !.pelletsRemaining = @ + r.respawnCount,
             !.log = @ \o <<[e |-> "restore", count |-> r.respawnCount]>>]
     ELSE s

\* Mutant of eatPowerPellet: the vulnerability ends at the duration, not at
\* time + duration.
eatPowerPelletNoTime(s, pX, pY, time) ==
  replenish(
    [s EXCEPT
       !.score = @ + 50,
       !.grid = SetTile(@, pX, pY, EMPTY),
       !.pelletsRemaining = @ - 1,
       !.currentPowerPellets = @ - 1,
       !.vulnerableUntil = VULNERABLE_DURATION_MS,
       !.ghostsEatenStreak = 0,
       !.ghosts = [i \in 1..Len(s.ghosts) |->
                     IF s.ghosts[i].status # EATEN
                     THEN [s.ghosts[i] EXCEPT !.status = VULNERABLE]
                     ELSE s.ghosts[i]],
       !.log = @ \o <<[e |-> "eat", tile |-> POWER_PELLET]>>])

\* The branch of E. for a POWER_PELLET tile.
eatPowerPellet(s, pX, pY, time) ==
  replenish(
    [s EXCEPT
       !.score = @ + 50,
       !.grid = SetTile(@, pX, pY, EMPTY),
       !.pelletsRemaining = @ - 1,
       !.currentPowerPellets = @ - 1,
       !.vulnerableUntil = time + VULNERABLE_DURATION_MS,
       !.ghostsEatenStreak = 0,
       !.ghosts = [i \in 1..Len(s.ghosts) |->
                     IF s.ghosts[i].status # EATEN
                     THEN [s.ghosts[i] EXCEPT !.status = VULNERABLE]
                     ELSE s.ghosts[i]],
       !.log = @ \o <<[e |-> "eat", tile |-> POWER_PELLET]>>])

\* Mutant of eatPellets: the pellet of the tile behind pacman is consumed
\* with the one of its own tile.
eatPelletsBehind(s, time) ==
  LET pX == Round(s.pacman.pos.x)
      pY == Round(s.pacman.pos.y)
      bX == pX + DIRECTIONS(getOppositeDirection(s.pacman.dir)).x
      bY == pY + DIRECTIONS(getOppositeDirection(s.pacman.dir)).y
      s1 == IF /\ bY >= 0 /\ bY < MAP_HEIGHT /\ bX >= 0 /\ bX < MAP_WIDTH
               /\ TileAt(s.grid, bX, bY) = PELLET
            THEN [s EXCEPT
                    !.score = @ + 10,
                    !.grid = SetTile(@, bX, bY, EMPTY),
                    !.pelletsRemaining = @ - 1,
                    !.log = @ \o <<[e |-> "eat", tile |-> PELLET]>>]
            ELSE s
  IN IF pY >= 0 /\ pY < MAP_HEIGHT /\ pX >= 0 /\ pX < MAP_WIDTH
     THEN LET item == TileAt(s1.grid, pX, pY)
          IN IF item = PELLET
             THEN [s1 EXCEPT
                     !.score = @ + 10,
                     !.grid = SetTile(@, pX, pY, EMPTY),
                     !.pelletsRemaining = @ - 1,
                     !.log = @ \o <<[e |-> "eat", tile |-> PELLET]>>]
             ELSE IF item = POWER_PELLET THEN eatPowerPellet(s1, pX, pY, time)
             ELSE s1
     ELSE s1

\* Mutant of eatPellets: the tile is found with Math.floor.
eatPelletsFloor(s, time) ==
  LET pX == Floor(s.pacman.pos.x)
      pY == Floor(s.pacman.pos.y)
  IN IF pY >= 0 /\ pY < MAP_HEIGHT /\ pX >= 0 /\ pX < MAP_WIDTH
     THEN LET item == TileAt(s.grid, pX, pY)
          IN IF item = PELLET
             THEN [s EXCEPT
                     !.score = @ + 10,
                     !.grid = SetTile(@, pX, pY, EMPTY),
                     !.pelletsRemaining = @ - 1,
                     !.log = @ \o <<[e |-> "eat", tile |-> PELLET]>>]
             ELSE IF item = POWER_PELLET THEN eatPowerPellet(s, pX, pY, time)
             ELSE s
     ELSE s

\* E. Eat Pellets.
eatPellets(s, time) ==
  LET pX == Round(s.pacman.pos.x)
      pY == Round(s.pacman.pos.y)
  IN IF pY >= 0 /\ pY < MAP_HEIGHT /\ pX >= 0 /\ pX < MAP_WIDTH
     THEN LET item == TileAt(s.grid, pX, pY)
          IN IF item = PELLET
             THEN [s EXCEPT
                     !.score = @ + 10,
                     !.grid = SetTile(@, pX, pY, EMPTY),
                     !.pelletsRemaining = @ - 1,
                     !.log = @ \o <<[e |-> "eat", tile |-> PELLET]>>]
             ELSE IF item = POWER_PELLET THEN eatPowerPellet(s, pX, pY, time)
             ELSE s
     ELSE s

\* ------------------------------------------------------------------------
\* GameScreen.update: 2. ghosts
\* ------------------------------------------------------------------------
\* ghostSpeedMult, in twentieths (0.85, 0.95, 1.05).
ghostSpeedMult(round) == IF round = 1 THEN 17 ELSE IF round = 2 THEN 19 ELSE 21

\* The while loop of one ghost: the set of ghosts it can end in.
RECURSIVE moveGhost(_, _, _, _, _)
moveGhost(ghost, distRemaining, safetyCounter, s, blinkyPos) ==
  IF ~(distRemaining > 0 /\ safetyCounter < 2) THEN {ghost}
  ELSE
    LET horizontal == ghost.direction = LEFT \/ ghost.direction = RIGHT
        currentVal == IF horizontal THEN ghost.pos.x ELSE ghost.pos.y
        dirSign == IF ghost.direction = RIGHT \/ ghost.direction = DOWN
                   THEN 1 ELSE -1
        nextInteger == IF dirSign > 0 THEN Floor(currentVal) + 1
                       ELSE Ceil(currentVal) - 1
        distToCenter == Abs(nextInteger * Unit - currentVal)
    IN IF distToCenter <= distRemaining
       THEN LET moved == IF horizontal
                         THEN [x |-> nextInteger * Unit, y |-> ghost.pos.y]
                         ELSE [x |-> ghost.pos.x, y |-> nextInteger * Unit]
                snapped == [ghost EXCEPT
                              !.pos = [x |-> Round(moved.x) * Unit,
                                       y |-> Round(moved.y) * Unit]]
                bp == IF ghost.id = 1 THEN snapped.pos ELSE blinkyPos
            IN UNION { moveGhost(
                         [snapped EXCEPT
                            !.direction = IF nextDir # NONE THEN nextDir ELSE @],
                         distRemaining - distToCenter, safetyCounter + 1,
                         s, blinkyPos)
                       : nextDir \in getNextGhostDirection(
                                       snapped, s.pacman.pos, s.pacman.dir,
                                       bp, s.grid, s.round) }
       ELSE {[ghost EXCEPT
                !.pos = [x |-> ghost.pos.x
                                + DIRECTIONS(ghost.direction).x * distRemaining,
                         y |-> ghost.pos.y
                                + DIRECTIONS(ghost.direction).y * distRemaining]]}

\* Mutant of moveGhostsFrom: EATEN ghosts move like the others.
RECURSIVE moveGhostsAll(_, _, _, _)
moveGhostsAll(i, ghosts, s, ghostMoveFactor) ==
  IF i > Len(ghosts) THEN {ghosts}
  ELSE LET blinkyPos == IF Len(ghosts) > 0 THEN ghosts[1].pos ELSE Pos(0, 0)
       IN UNION { moveGhostsAll(
                    i + 1,
                    [ghosts EXCEPT ![i] = [g EXCEPT !.pos = tunnel(g.pos)]],
                    s, ghostMoveFactor)
                  : g \in moveGhost(ghosts[i], ghostMoveFactor, 0, s,
                                    blinkyPos) }

\* state.ghosts.forEach of the ghost logic, from index i on: the set of
\* ghost arrays it can produce.  blinkyPos is read through the reference to
\* blinky's position object, so it follows blinky's own move.
RECURSIVE moveGhostsFrom(_, _, _, _)
moveGhostsFrom(i, ghosts, s, ghostMoveFactor) ==
  IF i > Len(ghosts) THEN {ghosts}
  ELSE IF ghosts[i].status = EATEN
       THEN moveGhostsFrom(i + 1, ghosts, s, ghostMoveFactor)
       ELSE LET blinkyPos == IF Len(ghosts) > 0 THEN ghosts[1].pos ELSE Pos(0, 0)
            IN UNION { moveGhostsFrom(
                         i + 1,
                         [ghosts EXCEPT ![i] = [g EXCEPT !.pos = tunnel(g.pos)]],
                         s, ghostMoveFactor)
                       : g \in moveGhost(ghosts[i], ghostMoveFactor, 0, s,
                                         blinkyPos) }

\* 2. GHOST LOGIC: the set of states after all ghosts have moved.
ghostLogic(s, delta) ==
  LET pacSpeedMs == ROUND_CONFIGS(s.round).speed
      ghostMoveFactor == (delta * Unit * ghostSpeedMult(s.round))
                           \div (pacSpeedMs * 20)
  IN { [s EXCEPT !.ghosts = gs]
       : gs \in moveGhostsFrom(1, s.ghosts, s, ghostMoveFactor) }

\* ------------------------------------------------------------------------
\* GameScreen.update: 3. timers and collisions
\* ------------------------------------------------------------------------
\* Mutant of timers: the streak is not reset when the vulnerability ends.
timersKeepStreak(s, time) ==
  LET s1 == IF s.vulnerableUntil > 0 /\ time > s.vulnerableUntil
            THEN [s EXCEPT
                    !.vulnerableUntil = 0,
                    !.ghosts = [i \in 1..Len(s.ghosts) |->
                                  IF s.ghosts[i].status = VULNERABLE
                                  THEN [s.ghosts[i] EXCEPT !.status = NORMAL]
                                  ELSE s.ghosts[i]],
                    !.log = @ \o <<[e |-> "expire"]>>]
            ELSE s
  IN [s1 EXCEPT
        !.popups = SelectSeq(@, LAMBDA p : time - p.timestamp < 1000)]

\* The vulnerability timer and the popup cleanup.
timers(s, time) ==
  LET s1 == IF s.vulnerableUntil > 0 /\ time > s.vulnerableUntil
            THEN [s EXCEPT
                    !.vulnerableUntil = 0,
                    !.ghostsEatenStreak = 0,
                    !.ghosts = [i \in 1..Len(s.ghosts) |->
                                  IF s.ghosts[i].status = VULNERABLE
                                  THEN [s.ghosts[i] EXCEPT !.status = NORMAL]
                                  ELSE s.ghosts[i]],
                    !.log = @ \o <<[e |-> "expire"]>>]
            ELSE s
  IN [s1 EXCEPT
        !.popups = SelectSeq(@, LAMBDA p : time - p.timestamp < 1000)]

\* Math.pow(2, n) for n >= 0.
RECURSIVE pow2(_)
pow2(n) == IF n <= 0 THEN 1 ELSE 2 * pow2(n - 1)

\* Mutant of inCollision: COLLISION_DIST is one tile.
inCollisionOneTile(ghostPos, pacmanPos) ==
  LET dx == ghostPos.x - pacmanPos.x
      dy == ghostPos.y - pacmanPos.y
  IN dx * dx + dy * dy < Unit * Unit

\* dist < COLLISION_DIST, with dist = sqrt(dx*dx + dy*dy) and
\* COLLISION_DIST = 0.5 tile.
inCollision(ghostPos, pacmanPos) ==
  LET dx == ghostPos.x - pacmanPos.x
      dy == ghostPos.y - pacmanPos.y
  IN 4 * (dx * dx + dy * dy) < Unit * Unit

\* Mutant of capture: the multiplier is 2^streak instead of 2^(streak - 1).
captureDoubled(s, ghost, time) ==
  LET streak == s.ghostsEatenStreak + 1
      points == 200 * pow2(streak)
  IN [s EXCEPT
        !.ghostsEatenStreak = streak,
        !.score = @ + points,
        !.popups = @ \o <<[x |-> ghost.pos.x, y |-> ghost.pos.y,
                           score |-> points, timestamp |-> time]>>,
        !.log = @ \o <<[e |-> "capture", id |-> ghost.id, points |-> points]>>]

\* The VULNERABLE branch of the collision loop, for the ghost at index i of
\* state.ghosts.
capture(s, ghost, time) ==
  LET streak == s.ghostsEatenStreak + 1
      points == 200 * pow2(streak - 1)
  IN [s EXCEPT
        !.ghostsEatenStreak = streak,
        !.score = @ + points,
        !.popups = @ \o <<[x |-> ghost.pos.x, y |-> ghost.pos.y,
                           score |-> points, timestamp |-> time]>>,
        !.log = @ \o <<[e |-> "capture", id |-> ghost.id, points |-> points]>>]

\* Mutant of collisionsFrom: a captured ghost keeps its status.
RECURSIVE collisionsKeepStatus(_, _, _, _, _)
collisionsKeepStatus(i, s, arr, live, time) ==
  IF i > Len(arr) THEN s
  ELSE
    LET ghost == IF live THEN s.ghosts[i] ELSE arr[i]
        hit == [s EXCEPT
                  !.log = @ \o <<[e |-> "collide", id |-> ghost.id,
                                  status |-> ghost.status, pos |-> ghost.pos,
                                  pacman |-> s.pacman.pos]>>]
    IN IF ghost.status = EATEN \/ ~inCollision(ghost.pos, s.pacman.pos)
       THEN collisionsKeepStatus(i + 1, s, arr, live, time)
       ELSE IF ghost.status = VULNERABLE
       THEN collisionsKeepStatus(i + 1, capture(hit, ghost, time), arr, live,
                                 time)
       ELSE LET s1 == handleDeath(hit)
                replaced == s.lives - 1 <= 0 /\ s.round # 1
            IN collisionsKeepStatus(i + 1, s1,
                                    IF live THEN s.ghosts ELSE arr,
                                    live /\ ~replaced, time)

\* Mutant of collisionsFrom: the loop ends with the first collision.
RECURSIVE collisionsFirstOnly(_, _, _, _, _)
collisionsFirstOnly(i, s, arr, live, time) ==
  IF i > Len(arr) THEN s
  ELSE
    LET ghost == s.ghosts[i]
        hit == [s EXCEPT
                  !.log = @ \o <<[e |-> "collide", id |-> ghost.id,
                                  status |-> ghost.status, pos |-> ghost.pos,
                                  pacman |-> s.pacman.pos]>>]
    IN IF ghost.status = EATEN \/ ~inCollision(ghost.pos, s.pacman.pos)
       THEN collisionsFirstOnly(i + 1, s, arr, live, time)
       ELSE IF ghost.status = VULNERABLE
       THEN [capture(hit, ghost, time) EXCEPT !.ghosts[i].status = EATEN]
       ELSE handleDeath(hit)

\* state.ghosts.forEach of the collision loop, from index i on.  arr is the
\* array the forEach was started on.  While live, it is the array of
\* state.ghosts (resetPositions mutates its elements in place); once
\* initRound has replaced state.ghosts and state.pacman, the loop goes on over
\* the elements of the old array and reads the new pacman.
RECURSIVE collisionsFrom(_, _, _, _, _)
collisionsFrom(i, s, arr, live, time) ==
  IF i > Len(arr) THEN s
  ELSE
    LET ghost == IF live THEN s.ghosts[i] ELSE arr[i]
        hit == [s EXCEPT
                  !.log = @ \o <<[e |-> "collide", id |-> ghost.id,
                                  status |-> ghost.status, pos |-> ghost.pos,
                                  pacman |-> s.pacman.pos]>>]
    IN IF ghost.status = EATEN \/ ~inCollision(ghost.pos, s.pacman.pos)
       THEN collisionsFrom(i + 1, s, arr, live, time)
       ELSE IF ghost.status = VULNERABLE
       THEN LET s1 == capture(hit, ghost, time)
                s2 == IF live
                      THEN [s1 EXCEPT !.ghosts[i].status = EATEN]
                      ELSE s1
            IN collisionsFrom(i + 1, s2,
                              [arr EXCEPT ![i].status = EATEN], live, time)
       ELSE LET s1 == handleDeath(hit)
                replaced == s.lives - 1 <= 0 /\ s.round # 1
            IN collisionsFrom(i + 1, s1,
                              IF live THEN s.ghosts ELSE arr,
                              live /\ ~replaced, time)

\* ------------------------------------------------------------------------
\* GameScreen.update
\* ------------------------------------------------------------------------
\* Mutant of pauseLogic: the timer also runs in LEVEL_TRANSITION.
pauseLogicAlways(s, delta) ==
  LET t == s.pauseTimer - delta
  IN [s EXCEPT !.pauseTimer = t,
               !.status = IF t <= 0 THEN "PLAYING" ELSE @]

\* Mutant of pauseLogic: the timer runs in ROUND_STARTING only.
pauseLogicRoundStartOnly(s, delta) ==
  IF s.status = "ROUND_STARTING"
  THEN LET t == s.pauseTimer - delta
       IN [s EXCEPT !.pauseTimer = t,
                    !.status = IF t <= 0 THEN "PLAYING" ELSE @]
  ELSE s

\* PAUSE LOGIC.
pauseLogic(s, delta) ==
  IF s.status # "LEVEL_TRANSITION"
  THEN LET t == s.pauseTimer - delta
       IN [s EXCEPT !.pauseTimer = t,
                    !.status = IF t <= 0 THEN "PLAYING" ELSE @]
  ELSE s

\* Mutant of roundComplete: the round ends with one pellet left.
roundCompleteEarly(s) == s.pelletsRemaining <= 1

\* The level-complete test that follows the consumption step.
roundComplete(s) == s.pelletsRemaining = 0

\* Mutant of update: the collisions are found before the timers are
\* applied.
updateCollideFirst(s0, time) ==
  LET delta == time - s0.lastFrameTime
      s == [s0 EXCEPT !.lastFrameTime = time, !.frameCount = @ + 1,
                      !.log = << >>]
  IN IF s.status \in {"ROUND_STARTING", "RESPAWNING", "LEVEL_TRANSITION"}
     THEN {pauseLogic(s, delta)}
     ELSE LET s1 == eatPellets(pacmanLogic(s, delta), time)
          IN IF roundComplete(s1)
             THEN {handleLevelComplete(s1)}
             ELSE { timers(collisionsFrom(1, s2, s2.ghosts, TRUE, time), time)
                    : s2 \in ghostLogic(s1, delta) }

\* Mutant of update: the pellets are consumed and the end of the round is
\* tested after the ghost logic, the timers and the collisions.
updateEatLast(s0, time) ==
  LET delta == time - s0.lastFrameTime
      s == [s0 EXCEPT !.lastFrameTime = time, !.frameCount = @ + 1,
                      !.log = << >>]
  IN IF s.status \in {"ROUND_STARTING", "RESPAWNING", "LEVEL_TRANSITION"}
     THEN {pauseLogic(s, delta)}
     ELSE { LET s3 == eatPellets(
                        collisionsFrom(1, timers(s2, time), s2.ghosts, TRUE,
                                       time),
                        time)
            IN IF roundComplete(s3) THEN handleLevelComplete(s3) ELSE s3
            : s2 \in ghostLogic(pacmanLogic(s, delta), delta) }

\* update(time): the set of states the call can end in.
update(s0, time) ==
  LET delta == time - s0.lastFrameTime
      s == [s0 EXCEPT !.lastFrameTime = time, !.frameCount = @ + 1,
                      !.log = << >>]
  IN IF s.status \in {"ROUND_STARTING", "RESPAWNING", "LEVEL_TRANSITION"}
     THEN {pauseLogic(s, delta)}
     ELSE LET s1 == eatPellets(pacmanLogic(s, delta), time)
          IN IF roundComplete(s1)
             THEN {handleLevelComplete(s1)}
             ELSE { collisionsFrom(1, timers(s2, time), s2.ghosts, TRUE, time)
                    : s2 \in ghostLogic(s1, delta) }

\* ------------------------------------------------------------------------
\* State
\* ------------------------------------------------------------------------
\* The fields of GameStateRef (gameState.current).
VARIABLES grid, pacman, ghosts, score, lives, round, vulnerableUntil,
          ghostsEatenStreak, status, pelletsRemaining, popups,
          powerPelletLocations, currentPowerPellets, pauseTimer,
          pauseDuration, pauseMessage, frameCount, lastFrameTime

\* The environment: the localStorage entry of the leaderboard, the calls
\* made to saveScore / onGameOver / onGameWin so far, the pending setTimeout
\* callbacks of handleLevelComplete and the wall clock (performance.now()).
VARIABLES storage, calls, timeouts, clock

\* What the last update / timer callback did (eat, restore, expire, collide,
\* capture, death, initRound, levelComplete), in order, and the frame count at which
\* the behaviour starts.
VARIABLES log, frame0

\* The call of a function of ghostAI.ts on its own: its name, its arguments
\* and, once it has returned, its result.
VARIABLE probe

vars == <<grid, pacman, ghosts, score, lives, round, vulnerableUntil,
          ghostsEatenStreak, status, pelletsRemaining, popups,
          powerPelletLocations, currentPowerPellets, pauseTimer,
          pauseDuration, pauseMessage, frameCount, lastFrameTime,
          storage, calls, timeouts, clock, log, frame0, probe>>

\* gameState.current and its environment as one record.
gameState ==
  [grid |-> grid, pacman |-> pacman, ghosts |-> ghosts, score |-> score,
   lives |-> lives, round |-> round, vulnerableUntil |-> vulnerableUntil,
   ghostsEatenStreak |-> ghostsEatenStreak, status |-> status,
   pelletsRemaining |-> pelletsRemaining, popups |-> popups,
   powerPelletLocations |-> powerPelletLocations,
   currentPowerPellets |-> currentPowerPellets, pauseTimer |-> pauseTimer,
   pauseDuration |-> pauseDuration, pauseMessage |-> pauseMessage,
   frameCount |-> frameCount, lastFrameTime |-> lastFrameTime,
   storage |-> storage, calls |-> calls, timeouts |-> timeouts, log |-> log]

\* The record written back to the variables.
Commit(t) ==
  /\ grid' = t.grid
  /\ pacman' = t.pacman
  /\ ghosts' = t.ghosts
  /\ score' = t.score
  /\ lives' = t.lives
  /\ round' = t.round
  /\ vulnerableUntil' = t.vulnerableUntil
  /\ ghostsEatenStreak' = t.ghostsEatenStreak
  /\ status' = t.status
  /\ pelletsRemaining' = t.pelletsRemaining
  /\ popups' = t.popups
  /\ powerPelletLocations' = t.powerPelletLocations
  /\ currentPowerPellets' = t.currentPowerPellets
  /\ pauseTimer' = t.pauseTimer
  /\ pauseDuration' = t.pauseDuration
  /\ pauseMessage' = t.pauseMessage
  /\ frameCount' = t.frameCount
  /\ lastFrameTime' = t.lastFrameTime
  /\ storage' = t.storage
  /\ calls' = t.calls
  /\ timeouts' = t.timeouts
  /\ log' = t.log
  /\ UNCHANGED probe

\* The initial value of the gameState ref (useRef), with an empty store.
refInit ==
  [grid |-> INITIAL_MAP, pacman |-> startPacman, ghosts |-> << >>,
   score |-> 0, lives |-> 3, round |-> 1, vulnerableUntil |-> 0,
   ghostsEatenStreak |-> 0, status |-> "ROUND_STARTING",
   pelletsRemaining |-> 0, popups |-> << >>,
   powerPelletLocations |-> << >>, currentPowerPellets |-> 0,
   pauseTimer |-> 0, pauseDuration |-> 0, pauseMessage |-> "",
   frameCount |-> 0, lastFrameTime |-> 0,
   storage |-> << >>, calls |-> << >>, timeouts |-> << >>, log |-> << >>]

\* The state after mounting: the "Initial Setup" effect has run
\* initRound(1, false).
mounted == [initRound(refInit, 1, FALSE) EXCEPT !.log = << >>]

\* ------------------------------------------------------------------------
\* Inputs and bounds
\* ------------------------------------------------------------------------
\* Frames (calls of update) explored from the initial state of a behaviour.
MaxFrames == 4

\* Frames explored outside the pauses in the specification with fairness.
LiveFrames == 2

\* A long frame (the tab was in the background): a whole number of tiles at
\* the speed of every round.
LongFrame == 63 * 130

\* The elapsed times (time - lastFrameTime) of a frame: half a tile, one tile
\* and a long frame.
Elapsed(r) ==
  {ROUND_CONFIGS(r).speed \div 2, ROUND_CONFIGS(r).speed, LongFrame}

\* The keys of handleKeyDown that set a direction.
Keys == {UP, DOWN, LEFT, RIGHT}

\* ------------------------------------------------------------------------
\* Initial states: the mounted game and later states of a run
\* ------------------------------------------------------------------------
\* The score of a round cleared with every pellet and the four power
\* pellets eaten once and every ghost captured in one vulnerability window.
clearScore(r) ==
  10 * Len(cellsFrom(INITIAL_MAP, 0, {PELLET}))
    + 50 * Len(powerPelletLocs(INITIAL_MAP))
    + 200 * (pow2(ROUND_CONFIGS(r).ghostCount) - 1)

\* The score with which round r is entered after such rounds.
entryScore(r) ==
  IF r = 1 THEN 0
  ELSE IF r = 2 THEN clearScore(1) ELSE clearScore(1) + clearScore(2)

\* The time and frame count of a state in the middle of a run.
midRunTime == 600 * 1000
midRunFrame == 36 * 1000

\* Round r (2 or 3) has just been initialised by the level timer, with l
\* lives left.
roundStarted(r, l) ==
  [initRound([mounted EXCEPT !.lives = l, !.score = entryScore(r),
                             !.lastFrameTime = midRunTime,
                             !.frameCount = midRunFrame], r, TRUE)
     EXCEPT !.log = << >>]

\* Round 1, the last life: pacman has gone up from its start tile twice,
\* eaten nothing and been caught there twice; resetPositions has run.
lastLifeRespawn ==
  [resetPositions([mounted EXCEPT !.lives = 1,
                                  !.pacman.dir = UP, !.pacman.nextDir = UP,
                                  !.pacman.pos = Pos(9, 9),
                                  !.lastFrameTime = midRunTime,
                                  !.frameCount = midRunFrame])
     EXCEPT !.log = << >>]

\* The tiles pacman has not visited in the state below: the lower left part
\* of the maze, with the last power pellet.
lowerLeft ==
  {p \in (0..9) \X (7..(MAP_HEIGHT - 1)) :
     INITIAL_MAP[p[2] + 1][p[1] + 1] \in {PELLET, POWER_PELLET}}

\* INITIAL_MAP with everything eaten but the pellets of the set left.
eatenGrid(left) ==
  [yy \in 1..MAP_HEIGHT |->
     [xx \in 1..MAP_WIDTH |->
        IF INITIAL_MAP[yy][xx] \in {PELLET, POWER_PELLET}
           /\ <<xx - 1, yy - 1>> \notin left
        THEN EMPTY ELSE INITIAL_MAP[yy][xx]]]

\* Round 1, two lives left: pacman has cleared the upper and the right part
\* of the maze with three of the power pellets, the vulnerability has
\* expired without a capture, and pacman was caught; resetPositions has run.
powerPelletRespawn ==
  [resetPositions(
     [mounted EXCEPT
        !.grid = eatenGrid(lowerLeft),
        !.pelletsRemaining = Cardinality(lowerLeft),
        !.currentPowerPellets = 1,
        !.lives = 2,
        !.score = 10 * (Len(cellsFrom(INITIAL_MAP, 0, {PELLET}))
                          - (Cardinality(lowerLeft) - 1)) + 50 * 3,
        !.lastFrameTime = midRunTime,
        !.frameCount = midRunFrame])
     EXCEPT !.log = << >>]

\* The tiles left in the end game below.
lastPellets == {<<10, 10>>, <<11, 10>>}

\* The end of round r while playing: every ghost was captured on the tile
\* above pacman's start, the vulnerability has expired, no power pellet and
\* only lastPellets are left, pacman passes its start tile.
endGame(r, l) ==
  [mounted EXCEPT
     !.grid = eatenGrid(lastPellets),
     !.pelletsRemaining = Cardinality(lastPellets),
     !.powerPelletLocations = powerPelletLocs(INITIAL_MAP),
     !.currentPowerPellets = 0,
     !.ghosts = [i \in 1..ROUND_CONFIGS(r).ghostCount |->
                   [id |-> INITIAL_GHOSTS[i].id, pos |-> Pos(9, 9),
                    direction |-> DOWN, status |-> EATEN]],
     !.round = r,
     !.lives = l,
     !.score = entryScore(r) + clearScore(r) - 10 * Cardinality(lastPellets),
     !.status = "PLAYING",
     !.pauseTimer = 0,
     !.pauseDuration = ROUND_START_PAUSE(r).duration,
     !.pauseMessage = roundMessage(r),
     !.lastFrameTime = midRunTime,
     !.frameCount = midRunFrame]

\* The first round after six long frames from the mounted game: the pause
\* has ended, pacman has gone up to (9,9) and back down to its start tile,
\* left to (4,10) and down to (4,14), eating the pellet of the tile it
\* ended each frame on, with the ghosts behind it (ghosts 2 and 3 on the
\* same tile), and the LEFT key was pressed, towards the power pellet on
\* (1,14).
lowerLeftRun ==
  [mounted EXCEPT
     !.grid = SetTile(SetTile(@, 4, 10, EMPTY), 4, 14, EMPTY),
     !.pelletsRemaining = @ - 2,
     !.score = 2 * 10,
     !.pacman = [@ EXCEPT !.pos = Pos(4, 14), !.dir = DOWN, !.nextDir = LEFT],
     !.ghosts = <<[@[1] EXCEPT !.pos = Pos(5, 10), !.direction = LEFT],
                  [@[2] EXCEPT !.pos = Pos(4, 10), !.direction = DOWN],
                  [@[3] EXCEPT !.pos = Pos(4, 10), !.direction = DOWN]>>,
     !.status = "PLAYING",
     !.pauseTimer = ROUND_START_PAUSE(1).duration - LongFrame,
     !.frameCount = 6,
     !.lastFrameTime = 6 * LongFrame]

\* The end of round 1 less than 10 s after the last power pellet was eaten
\* (with every ghost EATEN already): the vulnerability is still pending and
\* ends 200 ms from now.
endGameInWindow ==
  [endGame(1, 3) EXCEPT !.vulnerableUntil = midRunTime + 200]

\* The end of round 1 with the power pellet on (1,14) as the last pellet,
\* one tile to the left of pacman: every ghost was captured after the other
\* three power pellets, the last of them less than 10 s ago, so that the
\* vulnerability is still pending and ends 100 ms from now.
endGamePower ==
  [endGame(1, 3) EXCEPT
     !.grid = eatenGrid({<<1, 14>>}),
     !.pelletsRemaining = 1,
     !.currentPowerPellets = 1,
     !.score = entryScore(1) + clearScore(1) - 50,
     !.pacman = [@ EXCEPT !.pos = Pos(2, 14), !.dir = LEFT, !.nextDir = LEFT],
     !.vulnerableUntil = midRunTime + 100]

\* Round 1 while playing, less than 10 s after the power pellet on (17,14)
\* was eaten: ghosts 2 and 3 have been captured on pacman's way back, on
\* (17,12) and (14,10), the vulnerability ends 100 ms from now, pacman has
\* come down to (4,14) with the LEFT key pressed, towards the power pellet
\* on (1,14), and ghost 1, still VULNERABLE, walks one tile ahead of it in
\* the same corridor.  chasePath is the set of tiles pacman has visited:
\* from its start tile to the right along row 10, down to the power pellet
\* on (17,14), back the same way and along row 10 to (4,10), then down to
\* (4,14); chaseLeft is the set of pellets it has not visited.
powerPelletChase ==
  LET chasePath ==
        {<<x, 10>> : x \in (4..17) \ {9}}
          \cup {<<17, 11>>, <<17, 12>>, <<16, 12>>, <<16, 13>>, <<16, 14>>,
                <<17, 14>>}
          \cup {<<4, y>> : y \in 11..14}
      chaseLeft ==
        {p \in (0..(MAP_WIDTH - 1)) \X (0..(MAP_HEIGHT - 1)) :
           /\ INITIAL_MAP[p[2] + 1][p[1] + 1] \in {PELLET, POWER_PELLET}
           /\ p \notin chasePath}
  IN
  [mounted EXCEPT
     !.grid = eatenGrid(chaseLeft),
     !.pelletsRemaining = Cardinality(chaseLeft),
     !.currentPowerPellets = 3,
     !.score = 10 * (Cardinality(chasePath) - 1) + 50 + 200 + 400,
     !.ghostsEatenStreak = 2,
     !.pacman = [@ EXCEPT !.pos = Pos(4, 14), !.dir = DOWN, !.nextDir = LEFT],
     !.ghosts = <<[@[1] EXCEPT !.pos = Pos(3, 14), !.direction = LEFT,
                               !.status = VULNERABLE],
                  [@[2] EXCEPT !.pos = Pos(17, 12), !.direction = DOWN,
                               !.status = EATEN],
                  [@[3] EXCEPT !.pos = Pos(14, 10), !.direction = RIGHT,
                               !.status = EATEN]>>,
     !.vulnerableUntil = midRunTime + 100,
     !.status = "PLAYING",
     !.pauseTimer = 0,
     !.lastFrameTime = midRunTime,
     !.frameCount = midRunFrame]

\* The states a behaviour starts in.
startStates ==
  {mounted, roundStarted(2, 1), roundStarted(3, 1), lastLifeRespawn,
   powerPelletRespawn, lowerLeftRun, endGame(1, 3), endGame(2, 2),
   endGame(3, 1), endGameInWindow, endGamePower, powerPelletChase}

\* No function of ghostAI.ts is called on its own.
noProbe == [fn |-> "none", args |-> << >>, result |-> << >>]

\* The game is in state s and no frame has been delivered yet.
startsIn(s) ==
  /\ grid = s.grid
  /\ pacman = s.pacman
  /\ ghosts = s.ghosts
  /\ score = s.score
  /\ lives = s.lives
  /\ round = s.round
  /\ vulnerableUntil = s.vulnerableUntil
  /\ ghostsEatenStreak = s.ghostsEatenStreak
  /\ status = s.status
  /\ pelletsRemaining = s.pelletsRemaining
  /\ popups = s.popups
  /\ powerPelletLocations = s.powerPelletLocations
  /\ currentPowerPellets = s.currentPowerPellets
  /\ pauseTimer = s.pauseTimer
  /\ pauseDuration = s.pauseDuration
  /\ pauseMessage = s.pauseMessage
  /\ frameCount = s.frameCount
  /\ lastFrameTime = s.lastFrameTime
  /\ storage = s.storage
  /\ calls = s.calls
  /\ timeouts = s.timeouts
  /\ log = s.log
  /\ clock = s.lastFrameTime
  /\ frame0 = s.frameCount

Init == probe = noProbe /\ \E s \in startStates : startsIn(s)

\* ------------------------------------------------------------------------
\* Actions
\* ------------------------------------------------------------------------
\* handleKeyDown with a direction key.
KeyDown(newDir) ==
  /\ newDir # NONE
  /\ newDir # pacman.nextDir
  /\ pacman' = [pacman EXCEPT !.nextDir = newDir]
  /\ UNCHANGED <<grid, ghosts, score, lives, round, vulnerableUntil,
                 ghostsEatenStreak, status, pelletsRemaining, popups,
                 powerPelletLocations, currentPowerPellets, pauseTimer,
                 pauseDuration, pauseMessage, frameCount, lastFrameTime,
                 storage, calls, timeouts, clock, log, frame0, probe>>

\* A frame can be delivered at the given time: not before the clock, and
\* not after a timer that is due and has not run yet.
frameAt(time) ==
  /\ time >= clock
  /\ \A i \in 1..Len(timeouts) : time <= timeouts[i].setAt + timeouts[i].delay

\* animate(time): one call of update.
Frame(delta) ==
  LET time == lastFrameTime + delta
  IN /\ frameAt(time)
     /\ \E t \in update(gameState, time) : Commit(t)
     /\ clock' = time
     /\ UNCHANGED frame0

\* A frame, within the bound on frames.
Tick(delta) ==
  /\ frameCount - frame0 < MaxFrames
  /\ Frame(delta)

\* A frame where the bound leaves the pauses alone, so that every pause can
\* run to its end.
LiveTick(delta) ==
  /\ \/ frameCount - frame0 < LiveFrames
     \/ status \in {"ROUND_STARTING", "RESPAWNING"}
  /\ Frame(delta)

\* The setTimeout callback of handleLevelComplete runs, 2000 ms or more
\* after it was set.
LevelTimeout ==
  /\ timeouts # << >>
  /\ Commit(levelTimeout([gameState EXCEPT !.timeouts = Tail(@),
                                           !.log = << >>]))
  /\ clock' = IF clock > timeouts[1].setAt + timeouts[1].delay
              THEN clock ELSE timeouts[1].setAt + timeouts[1].delay
  /\ UNCHANGED frame0

Next ==
  \/ \E newDir \in Keys : KeyDown(newDir)
  \/ \E delta \in Elapsed(round) : Tick(delta)
  \/ LevelTimeout

Spec == Init /\ [][Next]_vars

LiveNext ==
  \/ \E newDir \in Keys : KeyDown(newDir)
  \/ \E delta \in Elapsed(round) : LiveTick(delta)
  \/ LevelTimeout

\* A frame delivered while the pause timer runs.
PauseTick ==
  /\ status \in {"ROUND_STARTING", "RESPAWNING"}
  /\ \E delta \in Elapsed(round) : LiveTick(delta)

\* requestAnimationFrame keeps delivering frames: animate requests the next
\* frame on every call, so a pause cannot go on without a frame.
LiveSpec ==
  Init /\ [][LiveNext]_vars /\ WF_vars(PauseTick)

\* ------------------------------------------------------------------------
\* ghostAI.ts on its own
\* ------------------------------------------------------------------------
\* The rounds a call is made for: those of ROUND_CONFIGS and beyond.
MaxRound == 4

\* The positions of pacman, of blinky and of the ghost in the calls: tile
\* centres and, for pacman, a point between two tiles.  The ghost is 2 to 21
\* tiles away from pacman, exactly 8 tiles among them.
pacmanSpots ==
  {Pos(9, 10), Pos(1, 1), Pos(17, 14),
   [x |-> 9 * Unit + Unit \div 2, y |-> 4 * Unit]}
blinkySpots == {Pos(9, 8), Pos(1, 14), Pos(17, 1)}
ghostSpots == {Pos(9, 8), Pos(9, 2), Pos(9, 1), Pos(1, 9), Pos(17, 6), Pos(1, 4)}

\* The arguments of the calls of getTargetPosition.
targetCalls ==
  [ghost : [id : 1..6, pos : ghostSpots, direction : {UP}, status : {NORMAL}],
   pacmanPos : pacmanSpots,
   pacmanDir : {UP, DOWN, LEFT, RIGHT, NONE},
   blinkyPos : blinkySpots,
   round : 1..MaxRound]

\* The tiles of the ghost in the calls of getNextGhostDirection: a corridor,
\* a crossing, a T-junction, the two cul-de-sacs of the bottom row, a spawn
\* marker and the tiles above and below the spawn markers.  (The walls on
\* (3,8) and (15,8) close the tunnel row to the ghosts of the game.)
directionSpots ==
  {Pos(1, 2), Pos(4, 4), Pos(1, 4), Pos(1, 14), Pos(17, 14), Pos(9, 7),
   Pos(9, 8), Pos(9, 9)}

\* The arguments of the calls of getNextGhostDirection; the grid is the one
\* of the mounted game.
directionCalls ==
  [ghost : [id : 1..6, pos : directionSpots,
            direction : {UP, DOWN, LEFT, RIGHT, NONE},
            status : {NORMAL, VULNERABLE}],
   pacmanPos : pacmanSpots,
   pacmanDir : {UP, DOWN, LEFT, RIGHT, NONE},
   blinkyPos : blinkySpots,
   round : 1..MaxRound]

PureInit ==
  /\ startsIn(mounted)
  /\ \/ \E a \in targetCalls :
          probe = [fn |-> "getTargetPosition", args |-> a, result |-> << >>]
     \/ \E a \in directionCalls :
          probe = [fn |-> "getNextGhostDirection", args |-> a,
                   result |-> << >>]

\* The call returns.
CallGetTargetPosition ==
  /\ probe.fn = "getTargetPosition"
  /\ probe.result = << >>
  /\ probe' = [probe EXCEPT
                 !.result = <<getTargetPosition(
                               probe.args.ghost, probe.args.pacmanPos,
                               probe.args.pacmanDir, probe.args.blinkyPos,
                               probe.args.round)>>]
  /\ UNCHANGED <<grid, pacman, ghosts, score, lives, round, vulnerableUntil,
                 ghostsEatenStreak, status, pelletsRemaining, popups,
                 powerPelletLocations, currentPowerPellets, pauseTimer,
                 pauseDuration, pauseMessage, frameCount, lastFrameTime,
                 storage, calls, timeouts, clock, log, frame0>>

\* The call returns one of the directions the function can return.
CallGetNextGhostDirection ==
  /\ probe.fn = "getNextGhostDirection"
  /\ probe.result = << >>
  /\ \E dir \in getNextGhostDirection(
                   probe.args.ghost, probe.args.pacmanPos,
                   probe.args.pacmanDir, probe.args.blinkyPos, grid,
                   probe.args.round) :
       probe' = [probe EXCEPT !.result = <<dir>>]
  /\ UNCHANGED <<grid, pacman, ghosts, score, lives, round, vulnerableUntil,
                 ghostsEatenStreak, status, pelletsRemaining, popups,
                 powerPelletLocations, currentPowerPellets, pauseTimer,
                 pauseDuration, pauseMessage, frameCount, lastFrameTime,
                 storage, calls, timeouts, clock, log, frame0>>

PureNext ==
  \/ CallGetTargetPosition
  \/ CallGetNextGhostDirection

PureSpec == PureInit /\ [][PureNext]_vars

\* ------------------------------------------------------------------------
\* storage.ts and the end of a game, with a store that can fail
\* ------------------------------------------------------------------------
\* The saveScore calls made before the game of this session ends.
MaxSaves == 6

\* The scores and the teams of those calls.
ScoreValues == {0, 10, 20}
TeamNames == {teamName, "RIVALS"}

\* The number of calls of saveScore made so far with the given score, and
\* whether the store has failed in one of the calls made so far; log holds
\* them in one record.
submitted(v) == IF log = << >> THEN 0 ELSE log[1].counts[v]
storeFailed == log # << >> /\ log[1].failed
submissions == IF log = << >> THEN 0 ELSE log[1].total

\* log after one more call of saveScore with score v on a store in the
\* given mode.
submit(v, mode) ==
  <<[e |-> "submitted",
     counts |-> [w \in ScoreValues |->
                   submitted(w) + IF w = v THEN 1 ELSE 0],
     total |-> submissions + 1,
     failed |-> storeFailed \/ mode # "ok"]>>

\* lastLifeRespawn after the frame that ends its pause.
lastLifePlaying ==
  [lastLifeRespawn EXCEPT
     !.status = "PLAYING",
     !.pauseTimer = @ - LongFrame,
     !.frameCount = @ + 1,
     !.lastFrameTime = @ + LongFrame]

\* The session is on the last life of round 1, in play, with an empty
\* store.
StoreInit == probe = noProbe /\ startsIn(lastLifePlaying)

\* A game that ended in this browser (this session's or an earlier one)
\* calls saveScore.
CallSaveScore(name, v, mode) ==
  /\ submissions < MaxSaves
  /\ LET saved == saveScoreOn(storage, name, v, mode)
     IN /\ storage' = saved.storage
        /\ probe' = [fn |-> "saveScore",
                     args |-> [teamName |-> name, score |-> v, mode |-> mode],
                     result |-> <<saved.raised>>]
  /\ log' = submit(v, mode)
  /\ UNCHANGED <<grid, pacman, ghosts, score, lives, round, vulnerableUntil,
                 ghostsEatenStreak, status, pelletsRemaining, popups,
                 powerPelletLocations, currentPowerPellets, pauseTimer,
                 pauseDuration, pauseMessage, frameCount, lastFrameTime,
                 calls, timeouts, clock, frame0>>

\* The LeaderboardScreen reads the list.
CallGetLeaderboard(mode) ==
  /\ mode # "writeFails"
  /\ probe' = [fn |-> "getLeaderboard", args |-> [mode |-> mode],
               result |-> <<getLeaderboardOn(storage, mode)>>]
  /\ probe' # probe
  /\ UNCHANGED <<grid, pacman, ghosts, score, lives, round, vulnerableUntil,
                 ghostsEatenStreak, status, pelletsRemaining, popups,
                 powerPelletLocations, currentPowerPellets, pauseTimer,
                 pauseDuration, pauseMessage, frameCount, lastFrameTime,
                 storage, calls, timeouts, clock, log, frame0>>

\* The player loses the last life of round 1: handleDeath runs.
LastDeath(mode) ==
  /\ status # "LEVEL_TRANSITION"
  /\ round = 1
  /\ lives = 1
  /\ LET t == handleDeathOn(gameState, mode)
     IN /\ status' = t.status
        /\ lives' = t.lives
        /\ storage' = t.storage
        /\ calls' = t.calls
  /\ probe' = [fn |-> "handleDeath", args |-> [mode |-> mode],
               result |-> << >>]
  /\ log' = submit(score, mode)
  /\ UNCHANGED <<grid, pacman, ghosts, score, round, vulnerableUntil,
                 ghostsEatenStreak, pelletsRemaining, popups,
                 powerPelletLocations, currentPowerPellets, pauseTimer,
                 pauseDuration, pauseMessage, frameCount, lastFrameTime,
                 timeouts, clock, frame0>>

StoreNext ==
  \/ \E name \in TeamNames, v \in ScoreValues, mode \in StoreModes :
       CallSaveScore(name, v, mode)
  \/ \E mode \in StoreModes : CallGetLeaderboard(mode)
  \/ \E mode \in StoreModes : LastDeath(mode)

StoreSpec == StoreInit /\ [][StoreNext]_vars

\* ------------------------------------------------------------------------
\* Properties
\* ------------------------------------------------------------------------
\* The tile coordinates of the grid.
Cells == (0..(MAP_WIDTH - 1)) \X (0..(MAP_HEIGHT - 1))

\* The tiles of a grid that hold a pellet or a power pellet.
PelletTiles(g) ==
  {p \in Cells : TileAt(g, p[1], p[2]) \in {PELLET, POWER_PELLET}}

\* The step is a call of update.
IsTick == frameCount' = frameCount + 1

\* C1: after round initialisation, pelletsRemaining is the number of PELLET
\* and POWER_PELLET tiles of the grid, in every reachable state.
C1_PelletCountExact == pelletsRemaining = Cardinality(PelletTiles(grid))

\* C1 witness: power pellets have just been replenished.
C1_Witness ==
  /\ \E i \in 1..Len(log) : log[i].e = "restore"
  /\ pelletsRemaining = Cardinality(PelletTiles(grid))

\* C2: a PLAYING tick completes the round (LEVEL_TRANSITION with the level
\* timer set) if and only if pelletsRemaining is 0 after its consumption
\* step.
C2_RoundCompleteIff ==
  [][(status = "PLAYING" /\ IsTick)
       => ((status' = "LEVEL_TRANSITION" /\ Len(timeouts') = Len(timeouts) + 1)
             <=> pelletsRemaining' = 0)]_vars

\* C2 witness: the round has just been completed.
C2_Witness ==
  /\ status = "LEVEL_TRANSITION"
  /\ pelletsRemaining = 0
  /\ Len(timeouts) = 1
  /\ \E i \in 1..Len(log) : log[i].e = "eat"

\* The tiles that held a pellet before the step and are EMPTY after it.
NewlyEmpty ==
  {p \in PelletTiles(grid) : TileAt(grid', p[1], p[2]) = EMPTY}

\* The tiles that held no pellet before the step and hold one after it.
NewlyPellet == PelletTiles(grid') \ PelletTiles(grid)

\* C3 as stated: every tick lowers pelletsRemaining by the number of tiles
\* it newly converted to EMPTY.
C3_Original ==
  [][IsTick
       => pelletsRemaining' = pelletsRemaining - Cardinality(NewlyEmpty)]_vars

\* C3 amended: every tick changes pelletsRemaining by minus the number of
\* tiles newly converted to EMPTY plus the number of tiles newly converted
\* to PELLET or POWER_PELLET (replenishment, grid reset of a demotion).
C3_Amended ==
  [][IsTick
       => pelletsRemaining' = pelletsRemaining - Cardinality(NewlyEmpty)
                                + Cardinality(NewlyPellet)]_vars

\* C3 witness: the last power pellet was consumed and the four power
\* pellets were restored in the same tick.
C3_Witness ==
  /\ status = "PLAYING"
  /\ \E i \in 1..Len(log) : log[i].e = "restore" /\ log[i].count = 4
  /\ currentPowerPellets = 4

\* The calls of saveScore made so far.
SaveCalls == SelectSeq(calls, LAMBDA c : c.fn = "saveScore")

\* C4: the final score is recorded at most once per run, whatever the
\* number of adversaries that collide with the player in one tick.
C4_SavedOnce == Len(SaveCalls) <= 1

\* C5: a death that leaves lives puts the game in RESPAWNING for 1500 ms
\* with pacman on (9,10) facing RIGHT, every non-EATEN ghost on its start
\* tile facing UP, and score, grid, pelletsRemaining and round as they were
\* at the death.
C5_DeathRespawn ==
  [][IsTick
       => \A i \in 1..Len(log') :
            (log'[i].e = "death" /\ log'[i].lives > 1)
              => /\ status' = "RESPAWNING"
                 /\ pauseTimer' = 1500
                 /\ pacman'.pos = Pos(9, 10)
                 /\ pacman'.dir = RIGHT
                 /\ pacman'.nextDir = RIGHT
                 /\ \A g \in 1..Len(ghosts') :
                      ghosts'[g].status # EATEN
                        => /\ ghosts'[g].pos
                                = INITIAL_GHOSTS[ghosts'[g].id].startPos
                           /\ ghosts'[g].direction = UP
                 /\ score' = log'[i].score
                 /\ grid' = log'[i].grid
                 /\ pelletsRemaining' = log'[i].pelletsRemaining
                 /\ round' = log'[i].round]_vars

\* C5 witness: pacman has just died with lives left, away from its start.
C5_Witness ==
  /\ status = "RESPAWNING"
  /\ lives = 2
  /\ \E i \in 1..Len(log) : log[i].e = "death" /\ log[i].lives = 3
  /\ pacman.pos = Pos(9, 10)

\* onGameOver has been called.
GameOverCalled(cs) == \E j \in 1..Len(cs) : cs[j].fn = "onGameOver"

\* C6: when the lives run out in round 1 the status is LEVEL_TRANSITION and
\* the score is saved and reported through onGameOver; no later tick
\* changes score, lives, round, grid or the entities.
C6_GameOverFinal ==
  [][IsTick
       => /\ \A i \in 1..Len(log') :
               (log'[i].e = "death" /\ log'[i].lives <= 1
                  /\ log'[i].round = 1)
                 => /\ status' = "LEVEL_TRANSITION"
                    /\ score' = log'[i].score
                    /\ \E j \in 1..Len(calls') :
                         calls'[j] = [fn |-> "onGameOver", score |-> score']
                    /\ \E j \in 1..Len(calls') :
                         calls'[j] = [fn |-> "saveScore", score |-> score']
                    /\ \E k \in 1..Len(storage') : storage'[k].score = score'
          /\ GameOverCalled(calls)
               => UNCHANGED <<score, lives, round, grid, pacman, ghosts,
                              status, pelletsRemaining, storage, calls>>]_vars

\* C6 witness: a tick has run after the game was over.
C6_Witness ==
  /\ GameOverCalled(calls)
  /\ status = "LEVEL_TRANSITION"
  /\ round = 1
  /\ log = << >>

\* C7: when the lives run out in a round above 1, the tick ends with three
\* lives in a fresh round 1 (ROUND_STARTING, round-1 pause, initial grid and
\* roster), the score of the moment of death, and nothing recorded.
C7_DemotionRestart ==
  [][IsTick
       => \A i \in 1..Len(log') :
            (log'[i].e = "death" /\ log'[i].lives = 1 /\ log'[i].round > 1)
              => /\ lives' = 3
                 /\ round' = 1
                 /\ status' = "ROUND_STARTING"
                 /\ pauseTimer' = 2000
                 /\ grid' = INITIAL_MAP
                 /\ Len(ghosts') = 3
                 /\ \A g \in 1..Len(ghosts') :
                      /\ ghosts'[g].status = NORMAL
                      /\ ghosts'[g].pos = INITIAL_GHOSTS[g].startPos
                 /\ score' = log'[i].score
                 /\ calls' = calls]_vars

\* C8: while the level timer is pending the status is LEVEL_TRANSITION with
\* no pellet left; the timer runs 2000 ms or more after the completion and
\* then either initialises round r+1 (initial grid, pellets recounted,
\* roster of 4 or 6 NORMAL ghosts, ROUND_STARTING, score and lives kept) or,
\* after round 3, saves the score and reports the victory.
C8_LevelTransition ==
  [][/\ timeouts' # << >>
          => status' = "LEVEL_TRANSITION" /\ pelletsRemaining' = 0
     /\ Len(timeouts') < Len(timeouts)
          => /\ clock' >= timeouts[1].setAt + 2000
             /\ IF round < 3
                THEN /\ round' = round + 1
                     /\ grid' = INITIAL_MAP
                     /\ pelletsRemaining'
                          = Cardinality(PelletTiles(INITIAL_MAP))
                     /\ Len(ghosts') = IF round' = 2 THEN 4 ELSE 6
                     /\ \A g \in 1..Len(ghosts') : ghosts'[g].status = NORMAL
                     /\ status' = "ROUND_STARTING"
                     /\ score' = score
                     /\ lives' = lives
                     /\ calls' = calls
                ELSE /\ status' = "LEVEL_TRANSITION"
                     /\ calls' = calls
                          \o <<[fn |-> "saveScore", score |-> score],
                               [fn |-> "onGameWin", score |-> score]>>
                     /\ \E k \in 1..Len(storage') : storage'[k].score = score
                     /\ UNCHANGED <<score, lives, round, grid>>]_vars

\* C8 witness: round 2 has been initialised by the timer of round 1.
C8_Witness ==
  /\ round = 2
  /\ status = "ROUND_STARTING"
  /\ timeouts = << >>
  /\ lives = 3
  /\ log = <<[e |-> "initRound", round |-> 2]>>

\* The statuses in which update only runs the pause logic.
Paused == {"ROUND_STARTING", "RESPAWNING", "LEVEL_TRANSITION"}

\* C9: a tick in ROUND_STARTING, RESPAWNING or LEVEL_TRANSITION changes
\* nothing of the game but the pause timer, which may only decrease (and
\* not in LEVEL_TRANSITION), and the status, which may only become PLAYING.
C9_PausedTickFrame ==
  [][(IsTick /\ status \in Paused)
       => /\ UNCHANGED <<grid, ghosts, score, lives, round, pelletsRemaining,
                         ghostsEatenStreak, vulnerableUntil>>
          /\ pacman'.pos = pacman.pos
          /\ pacman'.dir = pacman.dir
          /\ pauseTimer' <= pauseTimer
          /\ status' \in {status, "PLAYING"}
          /\ status = "LEVEL_TRANSITION"
               => pauseTimer' = pauseTimer /\ status' = status]_vars

\* C9 witness: a tick has run in a pause that goes on.
C9_Witness ==
  /\ status \in {"ROUND_STARTING", "RESPAWNING"}
  /\ frameCount > frame0
  /\ 0 < pauseTimer
  /\ pauseTimer < pauseDuration

\* The statuses whose pause timer runs.
Counting == {"ROUND_STARTING", "RESPAWNING"}

\* C10: from ROUND_STARTING or RESPAWNING the status eventually becomes
\* PLAYING; every tick of the pause lowers the timer by the elapsed time,
\* and the status becomes PLAYING at the first tick that brings the timer to
\* 0 or below, never earlier.
C10_PauseEnds ==
  /\ (status \in Counting) ~> (status = "PLAYING")
  /\ [](status \in Counting => 0 < pauseTimer /\ pauseTimer <= pauseDuration)
  /\ [][(IsTick /\ status \in Counting)
          => /\ pauseTimer' = pauseTimer - (lastFrameTime' - lastFrameTime)
             /\ status' = "PLAYING" <=> pauseTimer' <= 0
             /\ status' # "PLAYING" => status' = status]_vars

\* C10 witness: a pause has ended after more than one tick.
C10_Witness ==
  /\ status = "PLAYING"
  /\ pauseTimer <= 0
  /\ pauseTimer > -LongFrame \div 2
  /\ log = << >>
  /\ frameCount > frame0 + 1

\* A power pellet was consumed in the step.
AtePowerPellet ==
  \E i \in 1..Len(log') : log'[i].e = "eat" /\ log'[i].tile = POWER_PELLET

\* The ids of the ghosts captured in the step.
CapturedIds == {log'[i].id : i \in {j \in 1..Len(log') : log'[j].e = "capture"}}

\* C11: the tick that consumes a power pellet at time T sets vulnerableUntil
\* to T + 10000 and the streak to 0 and makes every ghost that is not EATEN
\* VULNERABLE, EATEN ghosts staying EATEN; a ghost captured later in that
\* tick is EATEN and counted in the streak.
C11_PowerPelletEffect ==
  [][(IsTick /\ AtePowerPellet)
       => /\ Len(ghosts') = Len(ghosts)
          /\ \A g \in 1..Len(ghosts) :
               ghosts'[g].status
                 = IF ghosts[g].status = EATEN \/ ghosts[g].id \in CapturedIds
                   THEN EATEN ELSE VULNERABLE
          /\ ghostsEatenStreak' = Cardinality(CapturedIds)
          /\ vulnerableUntil' = lastFrameTime' + VULNERABLE_DURATION_MS]_vars

\* C11 witness: a power pellet has just been consumed and the ghosts are
\* VULNERABLE.
C11_Witness ==
  /\ \E i \in 1..Len(log) : log[i].e = "eat" /\ log[i].tile = POWER_PELLET
  /\ vulnerableUntil = lastFrameTime + VULNERABLE_DURATION_MS
  /\ \A g \in 1..Len(ghosts) : ghosts[g].status = VULNERABLE

\* The step is a PLAYING tick at a time beyond a pending vulnerableUntil.
PastVulnerable ==
  /\ IsTick
  /\ status = "PLAYING"
  /\ vulnerableUntil > 0
  /\ lastFrameTime' > vulnerableUntil

\* The step has completed the round (handleLevelComplete has set its timer).
CompletedRound == Len(timeouts') = Len(timeouts) + 1

\* The step has re-initialised the round.
Reinitialised == \E i \in 1..Len(log') : log'[i].e = "initRound"

\* The ghosts VULNERABLE before the step are NORMAL after it, the EATEN ones
\* EATEN, and the streak and vulnerableUntil are 0.
VulnerabilityEnded ==
  /\ vulnerableUntil' = 0
  /\ ghostsEatenStreak' = 0
  /\ Len(ghosts') = Len(ghosts)
  /\ \A g \in 1..Len(ghosts) :
       /\ ghosts[g].status = VULNERABLE => ghosts'[g].status = NORMAL
       /\ ghosts[g].status = EATEN => ghosts'[g].status = EATEN

\* C12 as stated: every PLAYING tick at a time beyond a pending
\* vulnerableUntil ends the vulnerability, and no VULNERABLE ghost becomes
\* NORMAL in another tick.
C12_Original ==
  [][/\ PastVulnerable => VulnerabilityEnded
     /\ (IsTick /\ ~PastVulnerable)
          => \A g \in 1..Len(ghosts) :
               ~(/\ ghosts[g].status = VULNERABLE
                 /\ g <= Len(ghosts')
                 /\ ghosts'[g].status = NORMAL)]_vars

\* C12 amended: a PLAYING tick at a time beyond a pending vulnerableUntil
\* ends the vulnerability unless it completes the round (which, without a
\* power pellet, leaves vulnerableUntil, the streak and the ghosts as they
\* are), consumes a power pellet or re-initialises the round; no VULNERABLE
\* ghost becomes NORMAL in another tick.
C12_Amended ==
  [][/\ (PastVulnerable /\ ~CompletedRound /\ ~AtePowerPellet
           /\ ~Reinitialised)
          => VulnerabilityEnded
     /\ (PastVulnerable /\ CompletedRound /\ ~AtePowerPellet)
          => UNCHANGED <<vulnerableUntil, ghostsEatenStreak, ghosts>>
     /\ (IsTick /\ ~PastVulnerable)
          => \A g \in 1..Len(ghosts) :
               ~(/\ ghosts[g].status = VULNERABLE
                 /\ g <= Len(ghosts')
                 /\ ghosts'[g].status = NORMAL)]_vars

\* C12 witness: the vulnerability has just ended with one ghost EATEN and the
\* others NORMAL again.
C12_Witness ==
  /\ \E i \in 1..Len(log) : log[i].e = "expire"
  /\ vulnerableUntil = 0
  /\ \E g \in 1..Len(ghosts) : ghosts[g].status = EATEN
  /\ \E g \in 1..Len(ghosts) : ghosts[g].status = NORMAL

\* The capture events of the step, in the order they happened.
Captures == SelectSeq(log', LAMBDA ev : ev.e = "capture")

\* The points the pellets consumed in the step are worth.
EatPoints ==
  LET eats == SelectSeq(log', LAMBDA ev : ev.e = "eat")
  IN IF eats = << >> THEN 0
     ELSE IF eats[1].tile = POWER_PELLET THEN 50 ELSE 10

\* 200 + 400 + ... for n consecutive captures after k earlier ones.
RECURSIVE StreakPoints(_, _)
StreakPoints(k, n) ==
  IF n = 0 THEN 0 ELSE 200 * 2^k + StreakPoints(k + 1, n - 1)

Collisions == SelectSeq(log', LAMBDA ev : ev.e = "collide")

\* C14: a ghost that is EATEN before a PLAYING tick has the same position,
\* direction and status after it, whether or not the tick resets the
\* positions, as long as the tick does not replace the ghosts by those of a
\* new round; and no collision of the tick, capture or death, is with
\* that ghost.
C14_EatenExcluded ==
  [][(IsTick /\ status = "PLAYING")
       => \A g \in 1..Len(ghosts) :
            ghosts[g].status = EATEN
              => /\ ~Reinitialised
                      => Len(ghosts') = Len(ghosts) /\ ghosts'[g] = ghosts[g]
                 /\ \A j \in 1..Len(Collisions) :
                      Collisions[j].id # ghosts[g].id
                 /\ ghosts[g].id \notin CapturedIds]_vars

\* C14 witness: after a PLAYING tick without collision, pacman is within the
\* collision distance of a ghost that was EATEN in an earlier tick.
C14_Witness ==
  /\ status = "PLAYING"
  /\ frameCount > frame0
  /\ \A i \in 1..Len(log) : log[i].e \notin {"collide", "capture", "death"}
  /\ \E g \in 1..Len(ghosts) :
       /\ ghosts[g].status = EATEN
       /\ 4 * ((ghosts[g].pos.x - pacman.pos.x) * (ghosts[g].pos.x - pacman.pos.x)
               + (ghosts[g].pos.y - pacman.pos.y) * (ghosts[g].pos.y - pacman.pos.y))
            < Unit * Unit

\* The deaths of the step, in the order they happened.
Deaths == SelectSeq(log', LAMBDA ev : ev.e = "death")

\* Twice the Euclidean distance between positions a and b is less than one
\* tile.
WithinHalfTile(a, b) ==
  4 * ((a.x - b.x) * (a.x - b.x) + (a.y - b.y) * (a.y - b.y)) < Unit * Unit

\* C15: in a PLAYING tick every collision is between pacman and a NORMAL or
\* VULNERABLE ghost less than 0.5 tile apart and each ghost collides at most
\* once; a collision with a VULNERABLE ghost is followed at once by its
\* capture and the ghost is EATEN, a collision with a NORMAL ghost is
\* followed at once by a death, every capture and death follows a
\* collision, and each death takes one life.  In a tick without death the
\* collisions are those of the positions after the movement: the ghosts that
\* are not EATEN after it are 0.5 tile or more away from pacman.
C15_CollisionRule ==
  [][(IsTick /\ status = "PLAYING")
       => /\ \A i \in 1..Len(log') :
               /\ log'[i].e = "collide"
                    => /\ WithinHalfTile(log'[i].pos, log'[i].pacman)
                       /\ log'[i].status \in {NORMAL, VULNERABLE}
                       /\ i < Len(log')
                       /\ log'[i + 1].e
                            = IF log'[i].status = VULNERABLE
                              THEN "capture" ELSE "death"
                       /\ log'[i].status = VULNERABLE
                            => log'[i + 1].id = log'[i].id
                       /\ \A j \in 1..Len(log') :
                            (log'[j].e = "collide" /\ log'[j].id = log'[i].id
                               /\ ~Reinitialised)
                              => j = i
               /\ log'[i].e \in {"capture", "death"}
                    => i > 1 /\ log'[i - 1].e = "collide"
          /\ ~Reinitialised
               => /\ lives' = lives - Len(Deaths)
                  /\ \A g \in 1..Len(ghosts') :
                       ghosts'[g].id \in CapturedIds
                         => ghosts'[g].status = EATEN
          /\ Deaths = << >>
               => /\ \A g \in 1..Len(ghosts') :
                       ghosts'[g].status # EATEN
                         => ~WithinHalfTile(ghosts'[g].pos, pacman'.pos)
                  /\ \A j \in 1..Len(Collisions) :
                       /\ Collisions[j].pacman = pacman'.pos
                       /\ \E g \in 1..Len(ghosts') :
                            /\ ghosts'[g].id = Collisions[j].id
                            /\ ghosts'[g].pos = Collisions[j].pos]_vars

\* C15 witness: a NORMAL ghost has just caught pacman, which has lost one of
\* its three lives.
C15_Witness ==
  /\ \E i \in 1..Len(log) : log[i].e = "collide" /\ log[i].status = NORMAL
  /\ \E i \in 1..Len(log) : log[i].e = "death" /\ log[i].lives = 3
  /\ lives = 2
  /\ status = "RESPAWNING"

\* The vulnerability has expired in the step.
Expired == \E i \in 1..Len(log') : log'[i].e = "expire"

StepOf(ev) ==
  CASE ev.e \in {"eat", "restore"} -> 1
    [] ev.e = "levelComplete" -> 2
    [] ev.e = "expire" -> 3
    [] OTHER -> 4

\* The status with which the ghosts[g] of before the step meets the
\* collision test when the timers and the collisions come before the
\* consumption.
StatusBeforeEating(g) ==
  IF Expired /\ ghosts[g].status = VULNERABLE THEN NORMAL
  ELSE ghosts[g].status

\* The status with which the ghosts[g] of before the step meets the
\* collision test when the consumption comes first.
StatusAfterEating(g) ==
  IF AtePowerPellet /\ ghosts[g].status # EATEN THEN VULNERABLE
  ELSE StatusBeforeEating(g)

\* C17 as stated: in a PLAYING tick the timers and the collisions are
\* evaluated before the consumption of the tick is scored (a ghost collides
\* with the status the timers have left it) and also in the tick that
\* completes the round (a vulnerability past its time is ended there).
C17_Original ==
  [][(IsTick /\ status = "PLAYING")
       => /\ \A j \in 1..Len(Collisions) : \A g \in 1..Len(ghosts) :
               ghosts[g].id = Collisions[j].id
                 => Collisions[j].status = StatusBeforeEating(g)
          /\ (CompletedRound /\ PastVulnerable /\ ~AtePowerPellet)
               => vulnerableUntil' = 0]_vars

\* C17 amended: in a PLAYING tick the steps take effect in the order
\* player movement and consumption (with replenishment), test of the end of
\* the round, ghost movement, vulnerability timer, collisions: a ghost
\* collides with the status the consumption and the timer of the same tick
\* have left it, and the tick that consumes the last pellet ends there: it
\* has no timer and no collision, does not move a ghost and changes the
\* streak and vulnerableUntil only by the consumption of a power pellet.
C17_Amended ==
  [][(IsTick /\ status = "PLAYING")
       => /\ \A i, j \in 1..Len(log') :
               i < j => StepOf(log'[i]) <= StepOf(log'[j])
          /\ \A j \in 1..Len(Collisions) : \A g \in 1..Len(ghosts) :
               ghosts[g].id = Collisions[j].id
                 => Collisions[j].status = StatusAfterEating(g)
          /\ CompletedRound
               => /\ status' = "LEVEL_TRANSITION"
                  /\ \A i \in 1..Len(log') : StepOf(log'[i]) <= 2
                  /\ Len(ghosts') = Len(ghosts)
                  /\ \A g \in 1..Len(ghosts) :
                       /\ ghosts'[g].pos = ghosts[g].pos
                       /\ ghosts'[g].direction = ghosts[g].direction
                  /\ lives' = lives
                  /\ IF AtePowerPellet
                     THEN /\ ghostsEatenStreak' = 0
                          /\ vulnerableUntil'
                               = lastFrameTime' + VULNERABLE_DURATION_MS
                     ELSE UNCHANGED <<ghostsEatenStreak, vulnerableUntil,
                                      ghosts>>]_vars

\* C17 witness: the last pellet has just been consumed at a time beyond a
\* pending vulnerableUntil, which the tick has left as it was.
C17_Witness ==
  /\ status = "LEVEL_TRANSITION"
  /\ pelletsRemaining = 0
  /\ Len(log) = 2
  /\ log[1].e = "eat" /\ log[1].tile = PELLET
  /\ log[2].e = "levelComplete"
  /\ vulnerableUntil > 0
  /\ lastFrameTime > vulnerableUntil

\* The tile pacman is on when update consumes the pellets: the position
\* after the step, or the one of the first collision when a death has put
\* pacman back on its start tile.
PlayerTile ==
  LET pos == IF Deaths = << >> THEN pacman'.pos ELSE Collisions[1].pacman
  IN <<Round(pos.x), Round(pos.y)>>

\* The tiles that hold a power pellet when a round is initialised.
OriginalPowerPellets ==
  {p \in Cells : TileAt(INITIAL_MAP, p[1], p[2]) = POWER_PELLET}

\* C18: every step leaves the grid MAP_HEIGHT rows of MAP_WIDTH tiles and
\* changes no WALL, PACMAN_SPAWN or GHOST_SPAWN tile and makes none.  A step
\* that does not initialise a round changes a tile only from PELLET or
\* POWER_PELLET to EMPTY, which is done by a tick on pacman's tile, or from
\* EMPTY to POWER_PELLET on a tile that holds a power pellet in the initial
\* map.
C18_GridMutations ==
  [][/\ Len(grid') = MAP_HEIGHT
     /\ \A y \in 0..(MAP_HEIGHT - 1) :
          /\ Len(grid'[y + 1]) = MAP_WIDTH
          /\ grid'[y + 1] # grid[y + 1]
               => \A x \in 0..(MAP_WIDTH - 1) :
                    LET before == TileAt(grid, x, y)
                        after == TileAt(grid', x, y)
                    IN after # before
                         => /\ before \notin {WALL, PACMAN_SPAWN, GHOST_SPAWN}
                            /\ after \notin {WALL, PACMAN_SPAWN, GHOST_SPAWN}
                            /\ ~Reinitialised
                                 => \/ /\ before \in {PELLET, POWER_PELLET}
                                       /\ after = EMPTY
                                       /\ IsTick
                                       /\ <<x, y>> = PlayerTile
                                    \/ /\ before = EMPTY
                                       /\ after = POWER_PELLET
                                       /\ <<x, y>> \in OriginalPowerPellets]_vars

\* C18 witness: the tick has consumed the last power pellet on the grid and
\* restored the power pellets, the one under pacman included, while other
\* pellets of the initial map stay consumed.
C18_Witness ==
  /\ \E i \in 1..Len(log) : log[i].e = "restore"
  /\ <<Round(pacman.pos.x), Round(pacman.pos.y)>> \in OriginalPowerPellets
  /\ \A p \in OriginalPowerPellets : TileAt(grid, p[1], p[2]) = POWER_PELLET
  /\ \E p \in Cells :
       /\ TileAt(INITIAL_MAP, p[1], p[2]) = PELLET
       /\ TileAt(grid, p[1], p[2]) = EMPTY

\* A call of getTargetPosition has returned.
TargetReturned == probe.fn = "getTargetPosition" /\ probe.result # << >>

\* C19: in round 1 getTargetPosition returns pacman's position, whatever
\* the ghost's id (1..6) and position, pacman's direction and blinky's
\* position.
C19_RoundOneTarget ==
  (TargetReturned /\ probe.args.round = 1)
    => probe.result[1] = probe.args.pacmanPos

\* C19 witness: a call for ghost 6 in round 1 has returned pacman's
\* position, which is not the mirrored one.
C19_Witness ==
  /\ TargetReturned
  /\ probe.args.round = 1
  /\ probe.args.ghost.id = 6
  /\ probe.args.pacmanDir = LEFT
  /\ probe.result[1] = probe.args.pacmanPos
  /\ probe.result[1].x # (MAP_WIDTH - 1) * Unit - probe.args.pacmanPos.x

\* C20: from round 2 on getTargetPosition returns, for ghost 1, pacman's
\* position p; for ghost 2, p + 4 tiles in pacman's direction d; for
\* ghost 3, p in round 2 and b + 2 * ((p + 2 d) - b) from round 3 on, b
\* being blinky's position; for ghost 4, p when its Manhattan distance to
\* pacman is more than 8 tiles and the corner (0, MAP_HEIGHT - 1) otherwise;
\* for ghost 5, p - 4 d; for ghost 6, (MAP_WIDTH - 1 - p.x,
\* MAP_HEIGHT - 1 - p.y); nothing is clamped to the grid.
C20_PersonalityTable ==
  (TargetReturned /\ probe.args.round >= 2)
    => LET a == probe.args
           p == a.pacmanPos
           b == a.blinkyPos
           d == DIRECTIONS(a.pacmanDir)
           far == Abs(a.ghost.pos.x - p.x) + Abs(a.ghost.pos.y - p.y)
                    > 8 * Unit
           table ==
             CASE a.ghost.id = 1 -> p
               [] a.ghost.id = 2 ->
                    [x |-> p.x + 4 * Unit * d.x, y |-> p.y + 4 * Unit * d.y]
               [] a.ghost.id = 3 ->
                    IF a.round < 3 THEN p
                    ELSE [x |-> b.x + 2 * ((p.x + 2 * Unit * d.x) - b.x),
                          y |-> b.y + 2 * ((p.y + 2 * Unit * d.y) - b.y)]
               [] a.ghost.id = 4 ->
                    IF far THEN p
                    ELSE [x |-> 0, y |-> (MAP_HEIGHT - 1) * Unit]
               [] a.ghost.id = 5 ->
                    [x |-> p.x - 4 * Unit * d.x, y |-> p.y - 4 * Unit * d.y]
               [] a.ghost.id = 6 ->
                    [x |-> (MAP_WIDTH - 1) * Unit - p.x,
                     y |-> (MAP_HEIGHT - 1) * Unit - p.y]
       IN probe.result[1] = table

\* C20 witness: a call for ghost 4, exactly 8 tiles away from pacman, has
\* returned the corner.
C20_Witness ==
  /\ TargetReturned
  /\ probe.args.round >= 2
  /\ probe.args.ghost.id = 4
  /\ Abs(probe.args.ghost.pos.x - probe.args.pacmanPos.x)
       + Abs(probe.args.ghost.pos.y - probe.args.pacmanPos.y) = 8 * Unit
  /\ probe.result[1] = [x |-> 0, y |-> (MAP_HEIGHT - 1) * Unit]

\* A call of getNextGhostDirection has returned.
DirectionReturned ==
  probe.fn = "getNextGhostDirection" /\ probe.result # << >>

\* The non-reverse moves of ghost g on the grid: the directions other than
\* the reverse of its own whose neighbouring tile is a non-WALL tile of the
\* grid or lies in a column outside the grid.
NonReverseMoves(g) ==
  {dir \in {UP, LEFT, DOWN, RIGHT} :
     LET nextX == Round(g.pos.x) + DIRECTIONS(dir).x
         nextY == Round(g.pos.y) + DIRECTIONS(dir).y
     IN /\ dir # getOppositeDirection(g.direction)
        /\ \/ nextX < 0
           \/ nextX >= MAP_WIDTH
           \/ /\ nextY >= 0
              /\ nextY < MAP_HEIGHT
              /\ TileAt(grid, nextX, nextY) # WALL}

\* C21: for a non-VULNERABLE ghost with exactly one non-reverse move,
\* getNextGhostDirection returns that move, whatever pacman's position and
\* direction, blinky's position and the round.
C21_Corridor ==
  (/\ DirectionReturned
   /\ probe.args.ghost.status # VULNERABLE
   /\ Cardinality(NonReverseMoves(probe.args.ghost)) = 1)
    => probe.result[1] \in NonReverseMoves(probe.args.ghost)

\* C21 witness: a NORMAL ghost heading UP in the corridor of column 1 keeps
\* going UP although its target, pacman on (17,14), lies behind it.
C21_Witness ==
  /\ DirectionReturned
  /\ probe.args.ghost.status = NORMAL
  /\ probe.args.ghost.pos = Pos(1, 2)
  /\ probe.args.ghost.direction = UP
  /\ probe.args.pacmanPos = Pos(17, 14)
  /\ probe.args.round = 1
  /\ NonReverseMoves(probe.args.ghost) = {UP}
  /\ probe.result = <<UP>>

\* The rank of a direction in the evaluation order UP, LEFT, DOWN, RIGHT.
OrderOf(dir) ==
  CASE dir = UP    -> 1
    [] dir = LEFT  -> 2
    [] dir = DOWN  -> 3
    [] dir = RIGHT -> 4

\* The Manhattan distance to the target of the call from the tile the ghost
\* of the call reaches by moving one tile in direction dir.
TargetDistance(a, dir) ==
  LET target == getTargetPosition(a.ghost, a.pacmanPos, a.pacmanDir,
                                  a.blinkyPos, a.round)
      tileX == Round(a.ghost.pos.x) + DIRECTIONS(dir).x
      tileY == Round(a.ghost.pos.y) + DIRECTIONS(dir).y
  IN Abs(tileX * Unit - target.x) + Abs(tileY * Unit - target.y)

\* C22: for a non-VULNERABLE ghost with two or more non-reverse moves,
\* getNextGhostDirection returns a non-reverse move whose tile has the least
\* Manhattan distance to the target, and among the moves at that distance
\* the first in the order UP, LEFT, DOWN, RIGHT.
C22_NearestFirst ==
  (/\ DirectionReturned
   /\ probe.args.ghost.status # VULNERABLE
   /\ Cardinality(NonReverseMoves(probe.args.ghost)) >= 2)
    => LET chosen == probe.result[1]
           moves == NonReverseMoves(probe.args.ghost)
       IN /\ chosen \in moves
          /\ \A dir \in moves :
               /\ TargetDistance(probe.args, chosen)
                    <= TargetDistance(probe.args, dir)
               /\ TargetDistance(probe.args, dir)
                    = TargetDistance(probe.args, chosen)
                    => OrderOf(chosen) <= OrderOf(dir)

\* C22 witness: at the crossing (4,4) a NORMAL ghost heading UP whose
\* target (1,1) is as far from the tile above as from the tile to the left,
\* and farther from the tile to the right, is sent UP.
C22_Witness ==
  /\ DirectionReturned
  /\ probe.args.ghost.status = NORMAL
  /\ probe.args.ghost.pos = Pos(4, 4)
  /\ probe.args.ghost.direction = UP
  /\ probe.args.pacmanPos = Pos(1, 1)
  /\ probe.args.round = 1
  /\ NonReverseMoves(probe.args.ghost) = {UP, LEFT, RIGHT}
  /\ TargetDistance(probe.args, UP) = TargetDistance(probe.args, LEFT)
  /\ TargetDistance(probe.args, UP) < TargetDistance(probe.args, RIGHT)
  /\ probe.result = <<UP>>

\* C23: in NORMAL and in VULNERABLE status getNextGhostDirection returns
\* the reverse of the ghost's direction if and only if the ghost has no
\* non-reverse move; otherwise it returns one of the non-reverse moves
\* (towards a non-WALL tile, GHOST_SPAWN included, or a column outside the
\* grid).
C23_NoReverse ==
  DirectionReturned
    => LET chosen == probe.result[1]
           moves == NonReverseMoves(probe.args.ghost)
           reverse == getOppositeDirection(probe.args.ghost.direction)
       IN /\ (chosen = reverse) <=> (moves = {})
          /\ moves # {} => chosen \in moves

\* C23 witness: a VULNERABLE ghost that entered the cul-de-sac (1,14)
\* heading LEFT is turned RIGHT.
C23_Witness ==
  /\ DirectionReturned
  /\ probe.args.ghost.status = VULNERABLE
  /\ probe.args.ghost.pos = Pos(1, 14)
  /\ probe.args.ghost.direction = LEFT
  /\ NonReverseMoves(probe.args.ghost) = {}
  /\ probe.result = <<RIGHT>>

\* A call of getNextGhostDirection for a VULNERABLE ghost is pending.
FrightenedPending ==
  /\ probe.fn = "getNextGhostDirection"
  /\ probe.result = << >>
  /\ probe.args.ghost.status = VULNERABLE

\* A call of getNextGhostDirection for a VULNERABLE ghost has returned.
FrightenedReturned ==
  DirectionReturned /\ probe.args.ghost.status = VULNERABLE

\* The call can return direction dir.
CanReturn(dir) ==
  ENABLED (CallGetNextGhostDirection /\ probe'.result = <<dir>>)

\* C24 as stated: for a VULNERABLE ghost the directions the call can return
\* are exactly the non-reverse moves of the ghost on the grid: it returns
\* nothing else and it can return each of them.  The set is a function of
\* the ghost and the grid alone, so that two calls that differ only in
\* pacman's position or direction, blinky's position or the round allow the
\* same outcomes.
C24_Original ==
  /\ FrightenedReturned
       => probe.result[1] \in NonReverseMoves(probe.args.ghost)
  /\ FrightenedPending
       => \A dir \in NonReverseMoves(probe.args.ghost) : CanReturn(dir)

\* The outcomes of the call for a VULNERABLE ghost g: its non-reverse moves
\* if it has any, the reverse of its direction otherwise.
FrightenedOutcomes(g) ==
  IF NonReverseMoves(g) = {}
  THEN {getOppositeDirection(g.direction)}
  ELSE NonReverseMoves(g)

\* C24 amended: for a VULNERABLE ghost the directions the call can return
\* are exactly the non-reverse moves of the ghost on the grid when there is
\* one, and the reverse of its direction alone when there is none (dead
\* end); the set is a function of the ghost and the grid alone.
C24_Amended ==
  /\ FrightenedReturned
       => probe.result[1] \in FrightenedOutcomes(probe.args.ghost)
  /\ FrightenedPending
       => \A dir \in FrightenedOutcomes(probe.args.ghost) : CanReturn(dir)

\* C24 witness: a VULNERABLE ghost heading UP at the crossing (4,4) is sent
\* RIGHT, the last of its three non-reverse moves and the one farthest from
\* pacman on (1,1).
C24_Witness ==
  /\ FrightenedReturned
  /\ probe.args.ghost.pos = Pos(4, 4)
  /\ probe.args.ghost.direction = UP
  /\ probe.args.pacmanPos = Pos(1, 1)
  /\ probe.args.round = 1
  /\ NonReverseMoves(probe.args.ghost) = {UP, LEFT, RIGHT}
  /\ probe.result = <<RIGHT>>

\* The tile pacman's position rounds to is a WALL tile of the grid.
OnWall(pos) ==
  /\ Round(pos.x) >= 0 /\ Round(pos.x) < MAP_WIDTH
  /\ Round(pos.y) >= 0 /\ Round(pos.y) < MAP_HEIGHT
  /\ TileAt(grid, Round(pos.x), Round(pos.y)) = WALL

\* pacman's position at the end of the movement of the step: where the
\* first collision found it if the step ended in a death (which places
\* pacman on its start tile), its position after the step otherwise.
PositionAfterMove ==
  IF Deaths = << >> THEN pacman'.pos ELSE Collisions[1].pacman

\* The direction pacman takes at the start of the tick: the immediate
\* reversal first, then the buffered turn if it leads to a walkable tile.
DirAtCentre ==
  LET reversed == IF getOppositeDirection(pacman.dir) = pacman.nextDir
                  THEN pacman.nextDir ELSE pacman.dir
  IN IF /\ pacman.nextDir # NONE
        /\ pacman.nextDir # reversed
        /\ isValidMove(grid, Round(pacman.pos.x) * Unit,
                        Round(pacman.pos.y) * Unit, pacman.nextDir)
     THEN pacman.nextDir
     ELSE reversed

\* pacman is on a tile centre and the direction it takes there leads to a
\* tile it cannot walk on.
BlockedAtCentre ==
  /\ atCenter(pacman.pos)
  /\ ~isValidMove(grid, Round(pacman.pos.x) * Unit,
                   Round(pacman.pos.y) * Unit, DirAtCentre)

\* C25: in every reachable state the tile pacman's position rounds to is
\* not a WALL tile; and a PLAYING tick that finds pacman on a tile centre
\* with a direction (after the buffered turn) that leads to a non-walkable
\* tile leaves pacman on that centre, facing that direction.
C25_NeverInWall ==
  /\ [](~OnWall(pacman.pos))
  /\ [][(IsTick /\ status \notin Paused /\ BlockedAtCentre)
          => /\ PositionAfterMove
                  = Pos(Round(pacman.pos.x), Round(pacman.pos.y))
             /\ Deaths = << >> => pacman'.dir = DirAtCentre]_vars

\* C25 witness: pacman has run DOWN into the wall under (4,14) and stands
\* on the centre of that tile during play.
C25_Witness ==
  /\ status = "PLAYING"
  /\ frameCount > frame0
  /\ pacman.pos = Pos(4, 14)
  /\ pacman.dir = DOWN
  /\ TileAt(grid, 4, 15) = WALL
  /\ TileAt(grid, 4, 14) = EMPTY

\* The tile next to pacman's tile in direction dir, the tunnel row wrapping
\* around; << >> when it lies above or below the grid.
TileAhead(dir) ==
  LET aheadX == (Round(pacman.pos.x) + DIRECTIONS(dir).x) % MAP_WIDTH
      aheadY == Round(pacman.pos.y) + DIRECTIONS(dir).y
  IN IF aheadY < 0 \/ aheadY >= MAP_HEIGHT THEN << >>
     ELSE <<TileAt(grid, aheadX, aheadY)>>

\* A PLAYING tick that finds pacman on a tile centre, where the tiles of
\* the set refused are those pacman cannot walk on: the buffered turn is
\* applied if and only if it leads to a tile that is not refused (seen in
\* the direction pacman has after a tick of at most one tile of movement,
\* which meets no second centre), and pacman leaves the centre if and only
\* if the direction it then has leads to a tile that is not refused.
TurnsAndMoves(refused) ==
  (IsTick /\ status \notin Paused /\ atCenter(pacman.pos)
    /\ Round(pacman.pos.x) \in 0..(MAP_WIDTH - 1))
    => LET walkable(dir) == /\ TileAhead(dir) # << >>
                            /\ TileAhead(dir)[1] \notin refused
           wanted == IF getOppositeDirection(pacman.dir) = pacman.nextDir
                     THEN pacman.nextDir ELSE pacman.dir
           taken == IF /\ pacman.nextDir # NONE
                       /\ pacman.nextDir # wanted
                       /\ walkable(pacman.nextDir)
                    THEN pacman.nextDir ELSE wanted
           centre == Pos(Round(pacman.pos.x), Round(pacman.pos.y))
           oneTile == lastFrameTime' - lastFrameTime
                        <= ROUND_CONFIGS(round).speed
       IN /\ (Deaths = << >> /\ oneTile) => pacman'.dir = taken
          /\ (taken # NONE /\ walkable(taken)) <=> PositionAfterMove # centre

\* C26 as stated: only WALL is not walkable; at a tile centre the buffered
\* turn is applied, and pacman keeps moving, towards any adjacent tile that
\* is not WALL, a GHOST_SPAWN tile included.
C26_Original == [][TurnsAndMoves({WALL})]_vars

\* C26 amended: WALL and GHOST_SPAWN are not walkable for pacman; at a tile
\* centre the buffered turn is applied, and pacman keeps moving, towards
\* any adjacent tile that is neither WALL nor GHOST_SPAWN, and towards no
\* other tile.
C26_Amended == [][TurnsAndMoves({WALL, GHOST_SPAWN})]_vars

\* C26 witness: pacman has gone UP from its start tile and stands on (9,9)
\* facing the GHOST_SPAWN tile (9,8) during play.
C26_Witness ==
  /\ status = "PLAYING"
  /\ frameCount - frame0 >= 2
  /\ pacman.pos = Pos(9, 9)
  /\ pacman.dir = UP
  /\ TileAhead(UP) = <<GHOST_SPAWN>>

\* The number of entries of the stored list with score v.
storedWith(v) == Cardinality({i \in 1..Len(storage) : storage[i].score = v})

\* The number of saveScore calls made so far with a score in the set S.
RECURSIVE submittedIn(_)
submittedIn(S) ==
  IF S = {} THEN 0
  ELSE LET w == CHOOSE w \in S : TRUE
       IN submitted(w) + submittedIn(S \ {w})

\* The smaller of two numbers.
Min(a, b) == IF a < b THEN a ELSE b

\* The step is a call of saveScore with score v.
SavesScore(v) ==
  /\ log' # log
  /\ log'[1].counts[v] = submitted(v) + 1

\* C28: as long as the store has not failed, after any sequence of
\* saveScore calls from an empty store the stored list is in descending
\* order of score, has at most 5 entries and holds the 5 highest scores
\* submitted so far (all of them when fewer than 5 were submitted); and a
\* call with a score equal to that of the 5th entry of a full list leaves
\* the list as it is.
C28_TopFive ==
  /\ [](~storeFailed
         => /\ Len(storage) = Min(5, submissions)
            /\ \A i \in 1..(Len(storage) - 1) :
                 storage[i].score >= storage[i + 1].score
            /\ \A v \in ScoreValues :
                 LET above == submittedIn({w \in ScoreValues : w > v})
                 IN storedWith(v)
                      = IF above >= 5 THEN 0 ELSE Min(submitted(v), 5 - above))
  /\ [][\A v \in ScoreValues :
          (/\ SavesScore(v)
           /\ ~storeFailed'
           /\ Len(storage) = 5
           /\ storage[5].score = v)
            => storage' = storage]_vars

\* C28 witness: six calls were made, the list is full with entries of
\* TEAM only, and the last call, by RIVALS with the score of the 5th entry,
\* has left RIVALS out of the list.
C28_Witness ==
  /\ ~storeFailed
  /\ submissions = 6
  /\ Len(storage) = 5
  /\ probe.fn = "saveScore"
  /\ probe.args.teamName = "RIVALS"
  /\ probe.args.score = storage[5].score
  /\ storage[1].score > storage[5].score
  /\ \A i \in 1..5 : storage[i].teamName = teamName

\* The step is a call of getLeaderboard, of saveScore, or the last death.
ReadsLeaderboard == probe' # probe /\ probe'.fn = "getLeaderboard"
CallsSaveScore == log' # log /\ probe'.fn = "saveScore"
EndsGame == status # "LEVEL_TRANSITION" /\ probe'.fn = "handleDeath"

\* C29: a failure of the store is swallowed: on a failed read
\* getLeaderboard returns the empty list, saveScore does not raise
\* whatever the store does, and the last death of round 1 ends with
\* onGameOver called with the final score.
C29_FailureSwallowed ==
  [][/\ (ReadsLeaderboard /\ probe'.args.mode = "readFails")
          => probe'.result = << << >> >>
     /\ CallsSaveScore => probe'.result = <<FALSE>>
     /\ EndsGame
          => /\ status' = "LEVEL_TRANSITION"
             /\ calls' # << >>
             /\ calls'[Len(calls')] = [fn |-> "onGameOver", score |-> score]
    ]_vars

\* The original power-pellet locations that are EMPTY once pacman has
\* consumed the pellet of its tile in the step.
EmptiedPowerPellets ==
  {p \in OriginalPowerPellets :
     p = PlayerTile \/ TileAt(grid, p[1], p[2]) = EMPTY}

\* The tick consumes the last power pellet on the grid while a ghost of the
\* roster is not EATEN.
AteLastPowerPellet ==
  /\ IsTick
  /\ AtePowerPellet
  /\ Cardinality({p \in OriginalPowerPellets :
                    TileAt(grid, p[1], p[2]) = POWER_PELLET}) = 1
  /\ \E i \in 1..Len(ghosts) : ghosts[i].status # EATEN

\* C30: pelletsRemaining = 0 only when every ghost of the roster is EATEN;
\* and a tick that consumes the last power pellet on the grid while a ghost
\* is not EATEN puts a power pellet on every original location that is
\* EMPTY, the one just consumed included, and adds their number to
\* pelletsRemaining.
C30_CompleteOnlyAllEaten ==
  /\ [](pelletsRemaining = 0
         => \A i \in 1..Len(ghosts) : ghosts[i].status = EATEN)
  /\ [][(AteLastPowerPellet /\ ~Reinitialised)
          => /\ PlayerTile \in EmptiedPowerPellets
             /\ \A p \in EmptiedPowerPellets :
                  TileAt(grid', p[1], p[2]) = POWER_PELLET
             /\ pelletsRemaining'
                  = pelletsRemaining - 1 + Cardinality(EmptiedPowerPellets)
             /\ pelletsRemaining' > 0]_vars

\* C30 witness: with a ghost still VULNERABLE, pacman stands on a power
\* pellet that the tick has consumed and restored with the three others:
\* the round goes on.
C30_Witness ==
  /\ status = "PLAYING"
  /\ \E i \in 1..Len(log) : log[i].e = "restore"
  /\ \E i \in 1..Len(ghosts) : ghosts[i].status = VULNERABLE
  /\ <<Round(pacman.pos.x), Round(pacman.pos.y)>> \in OriginalPowerPellets
  /\ TileAt(grid, Round(pacman.pos.x), Round(pacman.pos.y)) = POWER_PELLET
  /\ currentPowerPellets = 4
  /\ pelletsRemaining >= 4

\* The number of ghosts of state.ghosts that are EATEN.
EatenCount == Cardinality({i \in 1..Len(ghosts) : ghosts[i].status = EATEN})

\* The number of ghosts of the round (ROUND_CONFIGS[round].ghostCount).
RosterSize == ROUND_CONFIGS(round).ghostCount

\* C31: in every reachable state the capture streak is at most the number
\* of ghosts that are EATEN, which is at most the roster size of the round
\* (state.ghosts holds exactly the roster); and no capture of a tick awards
\* more than 200 * 2^(rosterSize - 1) points, with the roster the tick
\* started with.
C31_StreakBounded ==
  /\ [](/\ ghostsEatenStreak <= EatenCount
        /\ Len(ghosts) = RosterSize
        /\ RosterSize \in {3, 4, 6})
  /\ [][IsTick
          => \A j \in 1..Len(Captures) :
               Captures[j].points <= 200 * 2^(RosterSize - 1)]_vars

\* C31 witness: two ghosts have been captured in one vulnerability window,
\* the second one in the last tick: the streak equals the number of EATEN
\* ghosts, one below the roster size of round 1.
C31_Witness ==
  /\ ghostsEatenStreak = 2
  /\ EatenCount = 2
  /\ RosterSize = 3
  /\ \E i \in 1..Len(log) : log[i].e = "capture" /\ log[i].id = 3

\* C32: in every reachable state lives is within 0..3, and a tick calls
\* handleDeath (lives -= 1) at most once, so that it leaves lives at least
\* at one below their number before the tick, however many NORMAL ghosts
\* are within the collision distance of pacman in the tick.
C32_LivesBounded ==
  /\ [](lives \in 0..3)
  /\ [][IsTick => (Len(Deaths) <= 1 /\ lives' >= lives - 1)]_vars

\* C33: in every reachable state of every round, the tile that the position
\* of a ghost that is not EATEN rounds to is inside the grid and is not a
\* WALL tile.
C33_GhostsOffWalls ==
  \A i \in 1..Len(ghosts) :
    ghosts[i].status # EATEN
      => /\ Round(ghosts[i].pos.x) >= 0
         /\ Round(ghosts[i].pos.x) < MAP_WIDTH
         /\ Round(ghosts[i].pos.y) >= 0
         /\ Round(ghosts[i].pos.y) < MAP_HEIGHT
         /\ ~OnWall(ghosts[i].pos)

\* C34 as stated: in a PLAYING tick at a time beyond the vulnerableUntil
\* that was pending before the tick, no capture is scored and every ghost
\* that was VULNERABLE before the tick and is found within the collision
\* distance collides as a NORMAL ghost and causes a death.
C34_Original ==
  [][PastVulnerable
       => /\ Captures = << >>
          /\ \A j \in 1..Len(Collisions) : \A g \in 1..Len(ghosts) :
               (/\ ghosts[g].id = Collisions[j].id
                /\ ghosts[g].status = VULNERABLE)
                 => Collisions[j].status = NORMAL
          /\ Len(Deaths) = Len(Collisions)]_vars

\* C34 amended: in a PLAYING tick the vulnerability timer is applied before
\* the collision loop and after the consumption, so that the vulnerableUntil
\* it reads is the one the tick has left.  A tick at a time beyond a pending
\* vulnerableUntil that neither consumes a power pellet (which renews
\* vulnerableUntil before the timer reads it) nor completes the round lets
\* the vulnerability expire;
\* in a tick with an expiry every ghost found within the collision distance
\* collides as a NORMAL ghost, those that were VULNERABLE before the tick
\* included: each collision is a death and none is a capture; and a tick
\* with a capture ends with time <= vulnerableUntil.
C34_Amended ==
  [][(IsTick /\ status = "PLAYING")
       => /\ (PastVulnerable /\ ~AtePowerPellet /\ ~CompletedRound)
               => Expired
          /\ Expired
               => /\ Captures = << >>
                  /\ \A j \in 1..Len(Collisions) :
                       Collisions[j].status = NORMAL
                  /\ Len(Deaths) = Len(Collisions)
                  /\ Collisions # << >> => lives' < lives \/ Reinitialised
          /\ Captures # << >>
               => /\ vulnerableUntil' > 0
                  /\ lastFrameTime' <= vulnerableUntil']_vars

\* C34 witness: the vulnerability has just expired and, in the same tick, a
\* ghost has collided with pacman as a NORMAL ghost and taken a life
\* (vulnerableUntil was pending before the tick, so the ghost was
\* VULNERABLE then).
C34_Witness ==
  /\ Len(log) >= 3
  /\ \E i \in 1..(Len(log) - 2) :
       /\ log[i].e = "expire"
       /\ log[i + 1].e = "collide" /\ log[i + 1].status = NORMAL
       /\ log[i + 2].e = "death"
  /\ vulnerableUntil = 0
  /\ status = "RESPAWNING"

\* C35: a PLAYING tick that does not initialise a round consumes at most
\* one tile, the one pacman's position rounds to after the movement loop,
\* for 10 or 50 points; every other tile that held a pellet before the tick
\* holds it after the tick, the tiles pacman has only traversed included,
\* and pelletsRemaining goes down by the tile consumed only (and up by the
\* power pellets put back).  Eats are the consumptions of the step, Restored
\* is the number of power pellets its replenishment has put back, Traversed
\* are the tiles strictly between pacman's tile before the step and
\* PlayerTile when both are on one row or one column.
C35_OneTilePerTick ==
  [][LET Eats == SelectSeq(log', LAMBDA ev : ev.e = "eat")
         restores == SelectSeq(log', LAMBDA ev : ev.e = "restore")
         Restored == IF restores = << >> THEN 0 ELSE restores[1].count
         a == <<Round(pacman.pos.x), Round(pacman.pos.y)>>
         b == PlayerTile
         lo(u, v) == IF u < v THEN u ELSE v
         hi(u, v) == IF u < v THEN v ELSE u
         Traversed ==
           IF a[2] = b[2]
           THEN {<<x, a[2]>> : x \in (lo(a[1], b[1]) + 1)..(hi(a[1], b[1]) - 1)}
           ELSE IF a[1] = b[1]
           THEN {<<a[1], y>> : y \in (lo(a[2], b[2]) + 1)..(hi(a[2], b[2]) - 1)}
           ELSE {}
     IN (IsTick /\ status = "PLAYING" /\ ~Reinitialised)
          => /\ Len(Eats) <= 1
             /\ Eats # << >>
                  => /\ TileAt(grid, PlayerTile[1], PlayerTile[2])
                          = Eats[1].tile
                     /\ Eats[1].tile \in {PELLET, POWER_PELLET}
             /\ \A y \in 0..(MAP_HEIGHT - 1) :
                  grid'[y + 1] # grid[y + 1]
                    => \A x \in 0..(MAP_WIDTH - 1) :
                         (/\ TileAt(grid, x, y) \in {PELLET, POWER_PELLET}
                          /\ <<x, y>> # PlayerTile)
                           => TileAt(grid', x, y) = TileAt(grid, x, y)
             /\ \A p \in Traversed :
                  TileAt(grid', p[1], p[2]) = TileAt(grid, p[1], p[2])
             /\ pelletsRemaining'
                  = pelletsRemaining - Len(Eats) + Restored]_vars

\* C35 witness: pacman has reached the power pellet on (1,14) in one long
\* tick and consumed it; the pellets on (2,14) and (3,14), the only way to
\* that tile, are still on the grid and counted.
C35_Witness ==
  /\ pacman.pos = Pos(1, 14)
  /\ Len(log) >= 1
  /\ log[1] = [e |-> "eat", tile |-> POWER_PELLET]
  /\ TileAt(grid, 2, 14) = PELLET
  /\ TileAt(grid, 3, 14) = PELLET
  /\ TileAt(grid, 1, 14) = EMPTY
  /\ pelletsRemaining = Cardinality(PelletTiles(grid))

=============================================================================
